---------------------------- MODULE Spec2Model ----------------------------
(***************************************************************************)
(* SketchQL: the structural diff engine (versionService.computeDiff), the  *)
(* dialect conversion engine (migrationService.migrateSchema), the model   *)
(* validator (schemaRefactorService.validateSchema) and the ingestion of   *)
(* model files (githubParserService.parseModels behind the sync route),    *)
(* and the version routes over versionService.createVersion.               *)
(*                                                                         *)
(* A schema is the React Flow graph the services receive:                  *)
(*   [nodes : Seq(node), edges : Seq(edge)]                                *)
(*   node = [id, data : [label, columns : Seq(column)]]                    *)
(*   column = [name, type, isPK, isNullable, isUnique]                     *)
(*   edge = [id, source, target, sourceHandle, targetHandle, label]        *)
(* JavaScript arrays are sequences, JavaScript strings are TLA+ strings    *)
(* (dialect names, whose characters the code inspects, are sequences of    *)
(* one-character strings).                                                 *)
(***************************************************************************)
EXTENDS Naturals, Sequences, FiniteSets, TLC

VARIABLES
    before,          \* computeDiff: schema1 of the request under study
    after,           \* computeDiff: schema2 of the request under study
    diffFwd,         \* result of computeDiff(before, after)
    diffRev,         \* result of computeDiff(after, before)
    diffSelf,        \* result of computeDiff(before, before)
    diffPerm,        \* result of computeDiff on reordered copies of the inputs
    pc,              \* which computeDiff call comes next
    schema,          \* migrateSchema: the schema argument
    sourceDbType,    \* migrateSchema: the sourceDbType argument
    targetDbType,    \* migrateSchema: the targetDbType argument
    mpc,             \* migrateSchema: "idle", "called", "awaitAI" (suspended at generateContent), "returned", "thrown"
    aiCalls,         \* number of generateContent calls made by the request
    mappingRuns,     \* number of migrateWithMapping runs made by the request
    aiReply,         \* the collaborator's reply, once it has replied
    result,          \* what migrateSchema returned (or the error it threw)
    typeMappings,    \* migrationService: the module-level TYPE_MAPPINGS object
    requests,        \* the requests the services are handling concurrently, by request id
    files,           \* github sync: the files fetched from the repository, in fetch order
    synced,          \* github sync: the response of the route (schema, filesProcessed)
    reordered,       \* parseModels on a permutation of the files
    cleaned,         \* parseModels on the files without the skipped ones
    ipc,             \* which parseModels call comes next
    projects,        \* version routes: the stored projects, by project id
    versions,        \* version routes: the stored SchemaVersion documents, in the order saved
    handlers,        \* version routes: the handlers of the create route under way, by client
    response         \* version routes: the response the last step sent, if it sent one

diffVars == <<before, after, diffFwd, diffRev, diffSelf, diffPerm, pc>>
migrateVars == <<schema, sourceDbType, targetDbType, mpc, aiCalls, mappingRuns, aiReply, result>>
ingestVars == <<files, synced, reordered, cleaned, ipc>>
serviceVars == <<typeMappings, requests>>
versionVars == <<projects, versions, handlers, response>>
vars == <<before, after, diffFwd, diffRev, diffSelf, diffPerm, pc,
          schema, sourceDbType, targetDbType, mpc, aiCalls, mappingRuns, aiReply, result,
          typeMappings, requests, files, synced, reordered, cleaned, ipc,
          projects, versions, handlers, response>>

(***************************************************************************)
(* Bounds of the model.                                                    *)
(***************************************************************************)
MaxNodes == 2
MaxEdges == 2
\* Conversion requests go up to this many entities (relationships) past the
\* complexity thresholds.
MaxOver == 1
\* A sync request fetches up to this many files.
MaxFiles == 3

(***************************************************************************)
(* Generic helpers on sequences.                                           *)
(***************************************************************************)
Range(s) == {s[i] : i \in DOMAIN s}

\* All sequences over S of length at most n.
SeqsUpTo(S, n) == UNION {[1..k -> S] : k \in 0..n}

\* All reorderings of the sequence s.
Perms(s) ==
    {[i \in DOMAIN s |-> s[f[i]]] :
        f \in {g \in [DOMAIN s -> DOMAIN s] : \A i, j \in DOMAIN s : g[i] = g[j] => i = j}}

\* Array.prototype.map
MapSeq(s, F(_)) == [i \in DOMAIN s |-> F(s[i])]

(***************************************************************************)
(* The columns, nodes and edges the diff requests are built from.          *)
(***************************************************************************)
Column(n, t, pk, nul, uq) ==
    [name |-> n, type |-> t, isPK |-> pk, isNullable |-> nul, isUnique |-> uq]

Node(i, l, cols) == [id |-> i, data |-> [label |-> l, columns |-> cols]]

Edge(i, s, t, sh, th, l) ==
    [id |-> i, source |-> s, target |-> t, sourceHandle |-> sh, targetHandle |-> th, label |-> l]

cId == Column("id", "int", TRUE, FALSE, FALSE)
cEmail == Column("email", "string", FALSE, FALSE, TRUE)
cPhone == Column("phone", "string", FALSE, TRUE, FALSE)
cUserId == Column("user_id", "int", FALSE, FALSE, FALSE)

\* Entity ids are caller-assigned strings; "a-a" is one that holds the '-'
\* computeDiff uses as the separator of its relationship key.
DiffNodePool ==
    { Node("a", "User", <<cId, cEmail>>),
      Node("a", "User", <<cEmail, cId>>),
      Node("a", "User", <<cId, cPhone>>),
      Node("a-a", "Order", <<cId, cUserId>>) }

DiffEdgePool ==
    { Edge("e1", "a-a", "a", "user_id-right", "id-left", "N:1"),
      Edge("e2", "a-a", "a", "user_id-right", "id-left", "N:1"),
      Edge("e3", "a", "a-a", "id-right", "user_id-left", "1:N") }

\* Canonical-model invariants (spec section 3): entity ids are unique, relationship
\* ids are unique, every relationship endpoint is an entity of the model.
ValidModel(m) ==
    /\ \A i, j \in DOMAIN m.nodes : m.nodes[i].id = m.nodes[j].id => i = j
    /\ \A i, j \in DOMAIN m.edges : m.edges[i].id = m.edges[j].id => i = j
    /\ \A i \in DOMAIN m.edges :
          /\ \E k \in DOMAIN m.nodes : m.nodes[k].id = m.edges[i].source
          /\ \E k \in DOMAIN m.nodes : m.nodes[k].id = m.edges[i].target

DiffSchemas ==
    { m \in [nodes : SeqsUpTo(DiffNodePool, MaxNodes), edges : SeqsUpTo(DiffEdgePool, MaxEdges)] :
        ValidModel(m) }

(***************************************************************************)
(* versionService.computeDiff                                              *)
(***************************************************************************)
BoolText(b) == IF b THEN "true" ELSE "false"

\* JSON.stringify of one column object, as its token sequence.
StringifyColumn(c) ==
    <<"{", "name", c.name, "type", c.type, "isPK", BoolText(c.isPK),
      "isNullable", BoolText(c.isNullable), "isUnique", BoolText(c.isUnique), "}">>

RECURSIVE StringifyColumns(_)
StringifyColumns(cols) ==
    IF cols = <<>> THEN <<>>
    ELSE StringifyColumn(Head(cols)) \o StringifyColumns(Tail(cols))

\* JSON.stringify(node.data): the label and the columns array in array order.
StringifyData(d) ==
    <<"{", "label", d.label, "columns", "[">> \o StringifyColumns(d.columns) \o <<"]", "}">>

\* JSON.stringify(edge): every field of the edge, its id included.
StringifyEdge(e) ==
    <<"{", "id", e.id, "source", e.source, "target", e.target,
      "sourceHandle", e.sourceHandle, "targetHandle", e.targetHandle,
      "label", e.label, "}">>

\* The relationship key `${e.source}-${e.target}`.
EdgeKey(e) == e.source \o "-" \o e.target

\* nodesMap.has(id) for nodesMap = new Map(nodes.map(n => [n.id, n])).
NodesMapHas(nodes, id) == \E i \in DOMAIN nodes : nodes[i].id = id

\* nodesMap.get(id): a later entry with the same key overwrites an earlier one.
NodesMapGet(nodes, id) ==
    nodes[CHOOSE i \in DOMAIN nodes :
        /\ nodes[i].id = id
        /\ \A j \in DOMAIN nodes : nodes[j].id = id => j <= i]

\* edgesMap.has(key) for edgesMap = new Map(edges.map(e => [key of e, e])).
EdgesMapHas(edges, key) == \E i \in DOMAIN edges : EdgeKey(edges[i]) = key

\* edgesMap.get(key): a later entry with the same key overwrites an earlier one.
EdgesMapGet(edges, key) ==
    edges[CHOOSE i \in DOMAIN edges :
        /\ EdgeKey(edges[i]) = key
        /\ \A j \in DOMAIN edges : EdgeKey(edges[j]) = key => j <= i]

NodesRemoved(schema1, schema2) ==
    SelectSeq(schema1.nodes, LAMBDA n : ~NodesMapHas(schema2.nodes, n.id))

NodesAdded(schema1, schema2) ==
    SelectSeq(schema2.nodes, LAMBDA n : ~NodesMapHas(schema1.nodes, n.id))

NodeDataDiffers(node1, node) == StringifyData(node1.data) # StringifyData(node.data)

NodesModified(schema1, schema2) ==
    LET changed == SelectSeq(schema2.nodes, LAMBDA n :
                      /\ NodesMapHas(schema1.nodes, n.id)
                      /\ NodeDataDiffers(NodesMapGet(schema1.nodes, n.id), n))
    IN  [i \in DOMAIN changed |->
            [id |-> changed[i].id,
             original |-> NodesMapGet(schema1.nodes, changed[i].id),
             modified |-> changed[i]]]

EdgesRemoved(schema1, schema2) ==
    SelectSeq(schema1.edges, LAMBDA e : ~EdgesMapHas(schema2.edges, EdgeKey(e)))

\* A variant of EdgesAdded that matches relationships by relationship id.
EdgesAddedById(schema1, schema2) ==
    SelectSeq(schema2.edges, LAMBDA e : ~\E i \in DOMAIN schema1.edges : schema1.edges[i].id = e.id)

EdgesAdded(schema1, schema2) ==
    SelectSeq(schema2.edges, LAMBDA e : ~EdgesMapHas(schema1.edges, EdgeKey(e)))

EdgeDiffers(edge1, edge) == StringifyEdge(edge1) # StringifyEdge(edge)

EdgesModified(schema1, schema2) ==
    LET changed == SelectSeq(schema2.edges, LAMBDA e :
                      /\ EdgesMapHas(schema1.edges, EdgeKey(e))
                      /\ EdgeDiffers(EdgesMapGet(schema1.edges, EdgeKey(e)), e))
    IN  [i \in DOMAIN changed |->
            [original |-> EdgesMapGet(schema1.edges, EdgeKey(changed[i])),
             modified |-> changed[i]]]

computeDiff(schema1, schema2) ==
    [nodes |-> [added |-> NodesAdded(schema1, schema2),
                removed |-> NodesRemoved(schema1, schema2),
                modified |-> NodesModified(schema1, schema2)],
     edges |-> [added |-> EdgesAdded(schema1, schema2),
                removed |-> EdgesRemoved(schema1, schema2),
                modified |-> EdgesModified(schema1, schema2)]]

EmptyDiff ==
    [nodes |-> [added |-> <<>>, removed |-> <<>>, modified |-> <<>>],
     edges |-> [added |-> <<>>, removed |-> <<>>, modified |-> <<>>]]

(***************************************************************************)
(* Reorderings of a schema: its entities, its relationships and the        *)
(* attributes inside each entity, each in any order.                       *)
(***************************************************************************)
ReorderColumns(n, cols) == [n EXCEPT !.data.columns = cols]

NodeReorderings(nodes) ==
    UNION { { [i \in DOMAIN p |-> ReorderColumns(p[i], c[i])] :
                c \in { d \in [DOMAIN p -> UNION {Perms(p[k].data.columns) : k \in DOMAIN p}] :
                          \A k \in DOMAIN p : d[k] \in Perms(p[k].data.columns) } } :
            p \in Perms(nodes) }

Reorderings(m) ==
    { [nodes |-> ns, edges |-> es] : ns \in NodeReorderings(m.nodes), es \in Perms(m.edges) }

(***************************************************************************)
(* migrationService: dialect names.  A name is the sequence of its         *)
(* characters, so that toLowerCase and includes are computed as the code   *)
(* computes them.                                                          *)
(***************************************************************************)
UpperLetters ==
    <<"A", "B", "C", "D", "E", "F", "G", "H", "I", "J", "K", "L", "M",
      "N", "O", "P", "Q", "R", "S", "T", "U", "V", "W", "X", "Y", "Z">>
LowerLetters ==
    <<"a", "b", "c", "d", "e", "f", "g", "h", "i", "j", "k", "l", "m",
      "n", "o", "p", "q", "r", "s", "t", "u", "v", "w", "x", "y", "z">>

ToLowerChar(c) ==
    IF \E i \in DOMAIN UpperLetters : UpperLetters[i] = c
    THEN LowerLetters[CHOOSE i \in DOMAIN UpperLetters : UpperLetters[i] = c]
    ELSE c

\* String.prototype.toLowerCase
ToLowerCase(s) == [i \in DOMAIN s |-> ToLowerChar(s[i])]

\* String.prototype.includes
Includes(s, sub) ==
    \E i \in 0..Len(s) : i + Len(sub) <= Len(s) /\ SubSeq(s, i + 1, i + Len(sub)) = sub

MONGO == <<"m", "o", "n", "g", "o">>
POSTGRES == <<"p", "o", "s", "t", "g", "r", "e", "s">>
POSTGRESQL == <<"p", "o", "s", "t", "g", "r", "e", "s", "q", "l">>
MYSQL == <<"m", "y", "s", "q", "l">>
SQL == <<"s", "q", "l">>

\* normalizeDbType, with a variant that skips the lower-casing.
normalizeDbTypeCaseSensitive(dbType) ==
    LET normalized == dbType
    IN  IF Includes(normalized, MONGO) THEN MONGO
        ELSE IF Includes(normalized, POSTGRES) \/ Includes(normalized, POSTGRESQL) THEN POSTGRES
        ELSE IF Includes(normalized, MYSQL) THEN MYSQL
        ELSE IF Includes(normalized, SQL) /\ ~Includes(normalized, MYSQL) THEN SQL
        ELSE normalized

normalizeDbType(dbType) ==
    LET normalized == ToLowerCase(dbType)
    IN  IF Includes(normalized, MONGO) THEN MONGO
        ELSE IF Includes(normalized, POSTGRES) \/ Includes(normalized, POSTGRESQL) THEN POSTGRES
        ELSE IF Includes(normalized, MYSQL) THEN MYSQL
        ELSE IF Includes(normalized, SQL) /\ ~Includes(normalized, MYSQL) THEN SQL
        ELSE normalized

\* The names conversion requests are made with.
NameMongoDB == <<"M", "o", "n", "g", "o", "D", "B">>
NamePostgreSQL == <<"P", "o", "s", "t", "g", "r", "e", "S", "Q", "L">>
NameMySQL == <<"M", "y", "S", "Q", "L">>
NameSQLServer == <<"S", "Q", "L", " ", "S", "e", "r", "v", "e", "r">>
NameOracle == <<"o", "r", "a", "c", "l", "e">>

DbTypeNames ==
    {MONGO, NameMongoDB, POSTGRES, NamePostgreSQL, MYSQL, NameMySQL, SQL, NameSQLServer, NameOracle}

(***************************************************************************)
(* migrationService.TYPE_MAPPINGS                                          *)
(***************************************************************************)
MongoToPostgres ==
    ("String" :> "VARCHAR(255)") @@ ("Number" :> "INTEGER") @@ ("Date" :> "TIMESTAMP") @@
    ("Boolean" :> "BOOLEAN") @@ ("ObjectId" :> "UUID") @@ ("Array" :> "JSONB") @@
    ("Object" :> "JSONB") @@ ("Mixed" :> "TEXT")

MongoToMysql ==
    ("String" :> "VARCHAR(255)") @@ ("Number" :> "INT") @@ ("Date" :> "DATETIME") @@
    ("Boolean" :> "TINYINT(1)") @@ ("ObjectId" :> "VARCHAR(36)") @@ ("Array" :> "JSON") @@
    ("Object" :> "JSON") @@ ("Mixed" :> "TEXT")

MongoToSql ==
    ("String" :> "NVARCHAR(255)") @@ ("Number" :> "INT") @@ ("Date" :> "DATETIME2") @@
    ("Boolean" :> "BIT") @@ ("ObjectId" :> "UNIQUEIDENTIFIER") @@ ("Array" :> "NVARCHAR(MAX)") @@
    ("Object" :> "NVARCHAR(MAX)") @@ ("Mixed" :> "NVARCHAR(MAX)")

PostgresToMongo ==
    ("VARCHAR" :> "String") @@ ("TEXT" :> "String") @@ ("INTEGER" :> "Number") @@
    ("BIGINT" :> "Number") @@ ("SMALLINT" :> "Number") @@ ("DECIMAL" :> "Number") @@
    ("NUMERIC" :> "Number") @@ ("REAL" :> "Number") @@ ("DOUBLE PRECISION" :> "Number") @@
    ("BOOLEAN" :> "Boolean") @@ ("DATE" :> "Date") @@ ("TIMESTAMP" :> "Date") @@
    ("TIMESTAMPTZ" :> "Date") @@ ("UUID" :> "ObjectId") @@ ("JSONB" :> "Object") @@
    ("JSON" :> "Object") @@ ("ARRAY" :> "Array")

PostgresToMysql ==
    ("VARCHAR" :> "VARCHAR") @@ ("TEXT" :> "TEXT") @@ ("INTEGER" :> "INT") @@
    ("BIGINT" :> "BIGINT") @@ ("SMALLINT" :> "SMALLINT") @@ ("DECIMAL" :> "DECIMAL") @@
    ("NUMERIC" :> "DECIMAL") @@ ("REAL" :> "FLOAT") @@ ("DOUBLE PRECISION" :> "DOUBLE") @@
    ("BOOLEAN" :> "TINYINT(1)") @@ ("DATE" :> "DATE") @@ ("TIMESTAMP" :> "DATETIME") @@
    ("TIMESTAMPTZ" :> "DATETIME") @@ ("UUID" :> "VARCHAR(36)") @@ ("JSONB" :> "JSON") @@
    ("JSON" :> "JSON") @@ ("ARRAY" :> "JSON")

MysqlToMongo ==
    ("VARCHAR" :> "String") @@ ("TEXT" :> "String") @@ ("INT" :> "Number") @@
    ("BIGINT" :> "Number") @@ ("SMALLINT" :> "Number") @@ ("DECIMAL" :> "Number") @@
    ("FLOAT" :> "Number") @@ ("DOUBLE" :> "Number") @@ ("TINYINT(1)" :> "Boolean") @@
    ("BOOLEAN" :> "Boolean") @@ ("DATE" :> "Date") @@ ("DATETIME" :> "Date") @@
    ("TIMESTAMP" :> "Date") @@ ("JSON" :> "Object") @@ ("CHAR" :> "String")

MysqlToPostgres ==
    ("VARCHAR" :> "VARCHAR") @@ ("TEXT" :> "TEXT") @@ ("INT" :> "INTEGER") @@
    ("BIGINT" :> "BIGINT") @@ ("SMALLINT" :> "SMALLINT") @@ ("DECIMAL" :> "DECIMAL") @@
    ("FLOAT" :> "REAL") @@ ("DOUBLE" :> "DOUBLE PRECISION") @@ ("TINYINT(1)" :> "BOOLEAN") @@
    ("BOOLEAN" :> "BOOLEAN") @@ ("DATE" :> "DATE") @@ ("DATETIME" :> "TIMESTAMP") @@
    ("TIMESTAMP" :> "TIMESTAMP") @@ ("JSON" :> "JSONB") @@ ("CHAR" :> "CHAR")

\* The empty table: what indexing yields nothing from.
NoEntries == [k \in {} |-> ""]

\* The object as the module builds it when it is loaded: one table per
\* (source, target) pair it has an entry for.
TypeMappingTables ==
    (<<MONGO, POSTGRES>> :> MongoToPostgres) @@ (<<MONGO, MYSQL>> :> MongoToMysql) @@
    (<<MONGO, SQL>> :> MongoToSql) @@
    (<<POSTGRES, MONGO>> :> PostgresToMongo) @@ (<<POSTGRES, MYSQL>> :> PostgresToMysql) @@
    (<<MYSQL, MONGO>> :> MysqlToMongo) @@ (<<MYSQL, POSTGRES>> :> MysqlToPostgres)

\* TYPE_MAPPINGS[source] is defined.
HasSourceEntry(source) == \E pair \in DOMAIN typeMappings : pair[1] = source

\* TYPE_MAPPINGS[source]?.to?.[target] is defined (truthy).
HasDirectMapping(source, target) == <<source, target>> \in DOMAIN typeMappings

\* TYPE_MAPPINGS[source].to[target], where HasDirectMapping(source, target).
TYPE_MAPPINGS(source, target) ==
    IF HasDirectMapping(source, target) THEN typeMappings[<<source, target>>] ELSE NoEntries

(***************************************************************************)
(* migrationService.needsAIAssistance                                      *)
(***************************************************************************)
RelationshipThreshold == 10
EntityThreshold == 15

needsAIAssistanceInclusive(sch, sourceType, targetType) ==
    \/ sourceType = MONGO
    \/ targetType = MONGO
    \/ Len(sch.edges) >= RelationshipThreshold
    \/ Len(sch.nodes) >= EntityThreshold

needsAIAssistance(sch, sourceType, targetType) ==
    \/ sourceType = MONGO
    \/ targetType = MONGO
    \/ Len(sch.edges) > RelationshipThreshold
    \/ Len(sch.nodes) > EntityThreshold

\* The useAI decision of migrateSchema.
useAI(sch, normalizedSource, normalizedTarget) ==
    \/ ~HasDirectMapping(normalizedSource, normalizedTarget)
    \/ needsAIAssistance(sch, normalizedSource, normalizedTarget)

(***************************************************************************)
(* migrationService.migrateWithMapping.  DDL text is the sequence of its   *)
(* lines, a line the sequence of its parts.                                *)
(***************************************************************************)
\* label.toLowerCase().replace(/\s+/g, '_') on the labels of the model.
TableName(label) ==
    CASE label = "User" -> "user"
      [] label = "Order" -> "order"
      [] label = "Order Item" -> "order_item"
      [] OTHER -> label

\* col.type.toUpperCase() on the types of the model.
ToUpperCase(type) ==
    CASE type = "int" -> "INT"
      [] type = "string" -> "STRING"
      [] type = "integer" -> "INTEGER"
      [] type = "varchar" -> "VARCHAR"
      [] type = "uuid" -> "UUID"
      [] type = "Number" -> "NUMBER"
      [] type = "String" -> "STRING"
      [] type = "geometry" -> "GEOMETRY"
      [] OTHER -> type

\* handle.replace('-right', '').replace('-left', '') on the handles of the model.
StripHandle(handle) ==
    CASE handle = "user_id-right" -> "user_id"
      [] handle = "id-left" -> "id"
      [] handle = "id-right" -> "id"
      [] handle = "user_id-left" -> "user_id"
      [] handle = "ref-right" -> "ref"
      [] OTHER -> handle

\* mapping[sourceType] || 'VARCHAR(255)'
LookupType(mapping, upperType) ==
    IF upperType \in DOMAIN mapping THEN mapping[upperType] ELSE "VARCHAR(255)"

\* The identity idiom of the target dialect.
PrimaryKeyType(targetType) ==
    IF targetType = POSTGRES THEN "SERIAL"
    ELSE IF targetType = MYSQL THEN "INT AUTO_INCREMENT"
    ELSE IF targetType = SQL THEN "INT IDENTITY(1,1)"
    ELSE "INT"

MappedType(mapping, col, targetType) ==
    IF col.isPK THEN PrimaryKeyType(targetType) ELSE LookupType(mapping, ToUpperCase(col.type))

\* A variant of ColumnDefinition that flags every non-nullable attribute,
\* primary keys included.
ColumnDefinitionFlaggingKeys(mapping, col, targetType) ==
    IF ~col.isNullable
    THEN <<col.name, MappedType(mapping, col, targetType), "NOT NULL">>
    ELSE <<col.name, MappedType(mapping, col, targetType)>>

ColumnDefinition(mapping, col, targetType) ==
    IF ~col.isNullable /\ ~col.isPK
    THEN <<col.name, MappedType(mapping, col, targetType), "NOT NULL">>
    ELSE <<col.name, MappedType(mapping, col, targetType)>>

UniqueConstraints(columns) ==
    MapSeq(SelectSeq(columns, LAMBDA col : col.isUnique /\ ~col.isPK),
           LAMBDA col : <<"UNIQUE", col.name>>)

\* schema.nodes.find(n => n.id === id) finds a node.
HasNode(sch, id) == \E i \in DOMAIN sch.nodes : sch.nodes[i].id = id

\* schema.nodes.find(n => n.id === id): the first node with the id.
FindNode(sch, id) ==
    sch.nodes[CHOOSE i \in DOMAIN sch.nodes :
        /\ sch.nodes[i].id = id
        /\ \A j \in DOMAIN sch.nodes : sch.nodes[j].id = id => i <= j]

ForeignKeyLine(sch, edge) ==
    <<"FOREIGN KEY", StripHandle(edge.sourceHandle), "REFERENCES",
      TableName(FindNode(sch, edge.target).data.label), StripHandle(edge.targetHandle)>>

\* A variant of ForeignKeys that emits a relationship on its target's table.
ForeignKeysOfTarget(sch, node) ==
    MapSeq(SelectSeq(sch.edges, LAMBDA edge : edge.target = node.id /\ HasNode(sch, edge.source)),
           LAMBDA edge : ForeignKeyLine(sch, edge))

ForeignKeys(sch, node) ==
    MapSeq(SelectSeq(sch.edges, LAMBDA edge : edge.source = node.id /\ HasNode(sch, edge.target)),
           LAMBDA edge : ForeignKeyLine(sch, edge))

\* One CREATE TABLE statement: the header, the column lines, the constraint
\* lines (uniqueness constraints, then foreign keys) and the closing line.
TableStatement(sch, node, mapping, targetType) ==
    << <<"CREATE TABLE", TableName(node.data.label), "(">> >>
    \o MapSeq(node.data.columns, LAMBDA col : ColumnDefinition(mapping, col, targetType))
    \o UniqueConstraints(node.data.columns)
    \o ForeignKeys(sch, node)
    \o << <<");">> >>

\* ddlStatements.join('\n'): statements end in a line break, so the join leaves
\* an empty line between two statements.
RECURSIVE JoinStatements(_)
JoinStatements(stmts) ==
    IF stmts = <<>> THEN <<>>
    ELSE IF Len(stmts) = 1 THEN Head(stmts)
    ELSE Head(stmts) \o << <<>> >> \o JoinStatements(Tail(stmts))

SummaryEntry(node, mapping, col, targetType) ==
    [table |-> node.data.label, column |-> col.name, sourceType |-> ToUpperCase(col.type),
     targetType |-> MappedType(mapping, col, targetType), reason |-> "Direct type mapping"]

RECURSIVE MappingSummary(_, _, _)
MappingSummary(nodes, mapping, targetType) ==
    IF nodes = <<>> THEN <<>>
    ELSE MapSeq(Head(nodes).data.columns, LAMBDA col : SummaryEntry(Head(nodes), mapping, col, targetType))
         \o MappingSummary(Tail(nodes), mapping, targetType)

Returned(ddl, summary) == [kind |-> "ok", targetDDL |-> ddl, mappingSummary |-> summary, message |-> ""]
Thrown(msg) == [kind |-> "error", targetDDL |-> <<>>, mappingSummary |-> <<>>, message |-> msg]

\* TYPE_MAPPINGS[sourceType].to[targetType] throws when the source dialect has no
\* entry; with an entry but no table for the target, mapping is undefined and
\* mapping[sourceType] throws at the first column.
MappingThrows(sch, sourceType, targetType) ==
    \/ ~HasSourceEntry(sourceType)
    \/ /\ ~HasDirectMapping(sourceType, targetType)
       /\ \E i \in DOMAIN sch.nodes : sch.nodes[i].data.columns # <<>>

migrateWithMapping(sch, sourceType, targetType) ==
    IF MappingThrows(sch, sourceType, targetType)
    THEN Thrown("TypeError")
    ELSE LET mapping == TYPE_MAPPINGS(sourceType, targetType)
         IN  Returned(
                JoinStatements(MapSeq(sch.nodes, LAMBDA node : TableStatement(sch, node, mapping, targetType))),
                MappingSummary(sch.nodes, mapping, targetType))

(***************************************************************************)
(* migrationService.migrateWithAI: the collaborator's reply and what       *)
(* becomes of it.                                                          *)
(***************************************************************************)
AiDDL == << <<"CREATE TABLE", "ai_table", "(">>, <<"id", "SERIAL">>, <<");">> >>
AiSummary ==
    << [table |-> "ai_table", column |-> "id", sourceType |-> "INT", targetType |-> "SERIAL",
        reason |-> "PostgreSQL uses SERIAL"] >>

\* kind "throws": generateContent (or reading the response) rejects.
\* kind "text": the text is not JSON.  kind "json": the text parses; targetDDL is
\* the DDL it holds (no lines when the field is missing or empty), isArray
\* says whether mappingSummary is an array.
Reply(k, ddl, arr, summary) == [kind |-> k, targetDDL |-> ddl, isArray |-> arr, mappingSummary |-> summary]

NoReply == Reply("none", <<>>, FALSE, <<>>)

AIReplies ==
    { Reply("throws", <<>>, FALSE, <<>>),
      Reply("text", <<>>, FALSE, <<>>),
      Reply("json", <<>>, TRUE, AiSummary),
      Reply("json", AiDDL, FALSE, <<>>),
      Reply("json", AiDDL, TRUE, <<>>),
      Reply("json", AiDDL, TRUE, AiSummary) }

\* A variant of ResponseValid that does not look at mappingSummary.
ResponseValidDDLOnly(reply) == reply.kind = "json" /\ reply.targetDDL # <<>>

\* The try block of migrateWithAI runs to its return statement.
ResponseValid(reply) ==
    /\ reply.kind = "json"
    /\ ~(reply.targetDDL = <<>> \/ ~reply.isArray)

\* A variant of AfterReply that lets the failure through.
AfterReplyNoFallback(sch, sourceType, targetType, reply) ==
    IF ResponseValid(reply)
    THEN Returned(reply.targetDDL, reply.mappingSummary)
    ELSE Thrown("Invalid AI response structure")

\* migrateWithAI from the collaborator's reply on: the reply itself, or the
\* fallback to migrateWithMapping out of the catch block.
AfterReply(sch, sourceType, targetType, reply) ==
    IF ResponseValid(reply)
    THEN Returned(reply.targetDDL, reply.mappingSummary)
    ELSE migrateWithMapping(sch, sourceType, targetType)

NoResult == [kind |-> "none", targetDDL |-> <<>>, mappingSummary |-> <<>>, message |-> ""]

(***************************************************************************)
(* The models conversion requests are made with.                           *)
(***************************************************************************)
cRef == Column("ref", "integer", FALSE, TRUE, FALSE)
cName == Column("name", "varchar", FALSE, FALSE, TRUE)
cShape == Column("shape", "geometry", FALSE, TRUE, FALSE)
cCount == Column("count", "Number", FALSE, FALSE, FALSE)

\* User{id PK int, email string unique}, Order{id PK int, user_id int}, and the
\* relationship Order.user_id -> User.id.
ExampleModel ==
    [nodes |-> <<Node("table_1", "User", <<cId, cEmail>>), Node("table_2", "Order", <<cId, cUserId>>)>>,
     edges |-> <<Edge("e2-1", "table_2", "table_1", "user_id-right", "id-left", "N:1")>>]

TypedModel ==
    [nodes |-> <<Node("table_1", "Order Item", <<cId, cName, cShape, cCount, cRef>>)>>,
     edges |-> <<>>]

\* One entity whose primary key is also flagged unique.
cCode == Column("code", "uuid", TRUE, FALSE, TRUE)

KeyedModel == [nodes |-> <<Node("table_1", "User", <<cCode, cPhone>>)>>, edges |-> <<>>]

NoColumnsModel == [nodes |-> <<Node("table_1", "User", <<>>)>>, edges |-> <<>>]

EmptyModel == [nodes |-> <<>>, edges |-> <<>>]

\* n entities t1..tn and m relationships, relationship j from entity (j mod n) + 1
\* to entity 1.
GeneratedModel(n, m) ==
    [nodes |-> [i \in 1..n |-> Node("table_" \o ToString(i), "t" \o ToString(i), <<cId, cRef>>)],
     edges |-> [j \in 1..m |->
                  Edge("e" \o ToString(j), "table_" \o ToString((j % n) + 1), "table_1",
                       "ref-right", "id-left", "N:1")]]

NodeCounts == {1} \cup (EntityThreshold .. EntityThreshold + MaxOver)
EdgeCounts == {0} \cup (RelationshipThreshold .. RelationshipThreshold + MaxOver)

MigrateSchemas ==
    {EmptyModel, ExampleModel, TypedModel, KeyedModel, NoColumnsModel}
        \cup {GeneratedModel(n, m) : n \in NodeCounts, m \in EdgeCounts}

(***************************************************************************)
(* The diff requests: one pair of snapshots, compared forward, backward,   *)
(* with itself, and after reordering one of the two inputs.                *)
(***************************************************************************)
(***************************************************************************)
(* schemaRefactorService.validateSchema.  The schemas of the model always  *)
(* hold a nodes array and an edges array, and every node a data object     *)
(* with a columns array, so the checks that can fail are those on strings. *)
(***************************************************************************)
\* !value on a string: only the empty string is falsy.
Missing(value) == value = ""

\* The error of the loop body for one node, "" when the node passes.
NodeError(node) ==
    IF Missing(node.id) \/ Missing(node.data.label)
    THEN "Each node must have 'id', 'data.label'"
    ELSE IF \E k \in DOMAIN node.data.columns :
                Missing(node.data.columns[k].name) \/ Missing(node.data.columns[k].type)
    THEN "Each column must have 'name' and 'type'"
    ELSE ""

ValidResult == [valid |-> TRUE, error |-> ""]
InvalidResult(msg) == [valid |-> FALSE, error |-> msg]

\* The loop returns at the first node that fails; the edges are never read.
validateSchema(sch) ==
    LET failing == {i \in DOMAIN sch.nodes : NodeError(sch.nodes[i]) # ""}
    IN  IF failing = {} THEN ValidResult
        ELSE InvalidResult(NodeError(sch.nodes[CHOOSE i \in failing : \A j \in failing : i <= j]))

(***************************************************************************)
(* githubParserService.  The content of a file is the sequence of the      *)
(* lexical units the regular expressions of the parsers tell apart; white  *)
(* space other than line breaks separates the units and is not a unit.     *)
(***************************************************************************)
Word(v) == [k |-> "word", v |-> v]                    \* \w+
ListType(v) == [k |-> "list", v |-> v]                \* a type with the list suffix: v[]
Attr(v) == [k |-> "attr", v |-> v]                    \* an attribute after a field's type: @id, @unique
Text(v) == [k |-> "text", v |-> v]                    \* any other text
Newline == [k |-> "nl", v |-> ""]
OpenBrace == [k |-> "{", v |-> ""]
CloseBrace == [k |-> "}", v |-> ""]
SchemaDecl(name) == [k |-> "schemaDecl", v |-> name]  \* const <name>Schema = new mongoose.Schema(
FieldKey(name) == [k |-> "key", v |-> name]           \* <name>:
TypeRef(t) == [k |-> "typeRef", v |-> t]              \* type: mongoose.Schema.Types.<t>
Option(v) == [k |-> "option", v |-> v]                \* required: true, unique: true, ref: '...'
Define(name) == [k |-> "define", v |-> name]          \* sequelize.define('<name>'

File(path, content) == [path |-> path, content |-> content]

\* The unit holds the text the code searches for.
Holds(tok, needle) ==
    CASE needle = "prisma" -> tok.k \in {"word", "text"} /\ tok.v \in {"prisma", "prisma-client-js"}
      [] needle = "model" -> tok.k \in {"word", "text"} /\ tok.v \in {"model", "models", "mongoose.model("}
      [] needle = "mongoose.Schema" -> tok.k \in {"schemaDecl", "typeRef"}
      [] needle = "sequelize.define" -> tok.k = "define"
      [] OTHER -> tok.v = needle

\* String.prototype.includes
ContentIncludes(content, needle) == \E i \in DOMAIN content : Holds(content[i], needle)

\* String.prototype.indexOf: the position of the first unit that holds the
\* text, 0 (before every position, as -1 is) when there is none.
IndexOf(content, needle) ==
    IF ContentIncludes(content, needle)
    THEN CHOOSE i \in DOMAIN content :
            /\ Holds(content[i], needle)
            /\ \A j \in DOMAIN content : Holds(content[j], needle) => i <= j
    ELSE 0

\* The first position from i on that is not a line break: what \s* and \s+ skip.
RECURSIVE SkipNewlines(_, _)
SkipNewlines(toks, i) ==
    IF i <= Len(toks) /\ toks[i].k = "nl" THEN SkipNewlines(toks, i + 1) ELSE i

\* The first position from i on that holds a unit of the kind (Len + 1 when none does).
RECURSIVE NextOf(_, _, _)
NextOf(toks, i, kind) ==
    IF i <= Len(toks) /\ toks[i].k # kind THEN NextOf(toks, i + 1, kind) ELSE i

\* What every parser builds for one model.
ParsedNode(n, label, columns) ==
    [id |-> "table_" \o ToString(n), type |-> "tableNode", position |-> [x |-> 0, y |-> 0],
     data |-> [label |-> label, columns |-> columns]]

(***************************************************************************)
(* PrismaParser                                                            *)
(***************************************************************************)
PrismaTypeMap ==
    ("String" :> "VARCHAR") @@ ("Int" :> "INT") @@ ("BigInt" :> "BIGINT") @@ ("Float" :> "FLOAT") @@
    ("Decimal" :> "DECIMAL") @@ ("Boolean" :> "BOOLEAN") @@ ("DateTime" :> "DATETIME") @@
    ("Date" :> "DATE") @@ ("Json" :> "JSON") @@ ("Bytes" :> "BLOB")

\* cleanType is the type without its list suffix.
mapPrismaType(cleanType) ==
    IF cleanType \in DOMAIN PrismaTypeMap THEN PrismaTypeMap[cleanType] ELSE "VARCHAR"

PrismaColumn(fieldName, fieldType, attributes) ==
    Column(fieldName.v,
           mapPrismaType(fieldType.v),
           ContentIncludes(attributes, "@id"),
           ~ContentIncludes(attributes, "@required") /\ fieldType.k # "list",
           ContentIncludes(attributes, "@unique"))

\* fieldRegex /(\w+)\s+(\w+(?:\[\])?)\s*(.*)/g over a model body, from position
\* i on: a word, white space, a type, then white space (line breaks
\* included) and, as the attributes, the rest of the line reached.
RECURSIVE PrismaFields(_, _)
PrismaFields(body, i) ==
    IF i > Len(body) THEN <<>>
    ELSE LET t == SkipNewlines(body, i + 1)
             a == SkipNewlines(body, t + 1)
             e == NextOf(body, a, "nl")
         IN  IF body[i].k = "word" /\ t <= Len(body) /\ body[t].k \in {"word", "list"}
             THEN <<PrismaColumn(body[i], body[t], SubSeq(body, a, e - 1))>> \o PrismaFields(body, e)
             ELSE PrismaFields(body, i + 1)

\* modelRegex /model\s+(\w+)\s*\{([^}]+)\}/g from position i on, the nodes
\* pushed so far being nodes.
RECURSIVE PrismaNodes(_, _, _)
PrismaNodes(toks, i, nodes) ==
    IF i > Len(toks) THEN nodes
    ELSE LET n == SkipNewlines(toks, i + 1)
             o == SkipNewlines(toks, n + 1)
             c == NextOf(toks, o + 1, "}")
         IN  IF /\ toks[i] = Word("model")
                /\ n <= Len(toks) /\ toks[n].k = "word"
                /\ o <= Len(toks) /\ toks[o].k = "{"
                /\ c <= Len(toks)
             THEN PrismaNodes(toks, c + 1,
                      Append(nodes, ParsedNode(Len(nodes) + 1, toks[n].v,
                                               PrismaFields(SubSeq(toks, o + 1, c - 1), 1))))
             ELSE PrismaNodes(toks, i + 1, nodes)

\* PrismaParser.parse: the relation loop has an empty body, edges stay empty.
PrismaParse(content) == [nodes |-> PrismaNodes(content, 1, <<>>), edges |-> <<>>]

(***************************************************************************)
(* MongooseParser                                                          *)
(***************************************************************************)
MongooseTypeMap ==
    ("String" :> "VARCHAR") @@ ("Number" :> "INT") @@ ("Date" :> "DATETIME") @@
    ("Boolean" :> "BOOLEAN") @@ ("ObjectId" :> "VARCHAR") @@ ("Array" :> "TEXT") @@ ("Mixed" :> "TEXT")

mapMongooseType(type) ==
    IF type \in DOMAIN MongooseTypeMap THEN MongooseTypeMap[type] ELSE "VARCHAR"

\* schemaName.replace('Schema', '') on the names of the model.
StripSchema(schemaName) ==
    CASE schemaName = "userSchema" -> "user"
      [] OTHER -> schemaName

\* The brace-counting loop from position i on: schemaEnd when it stops.
RECURSIVE ScanBraces(_, _, _)
ScanBraces(toks, i, braceCount) ==
    IF braceCount > 0 /\ i <= Len(toks)
    THEN ScanBraces(toks, i + 1,
                    IF toks[i].k = "{" THEN braceCount + 1
                    ELSE IF toks[i].k = "}" THEN braceCount - 1
                    ELSE braceCount)
    ELSE i

\* content.substring(schemaStart, schemaEnd - 1): the units scanned but the last.
SchemaBody(toks, schemaStart) == SubSeq(toks, schemaStart, ScanBraces(toks, schemaStart, 1) - 2)

MongooseColumn(schemaBody, fieldName, fieldType) ==
    LET isRequired ==
            /\ ContentIncludes(schemaBody, "required: true")
            /\ IndexOf(schemaBody, fieldName) < IndexOf(schemaBody, "required: true")
    IN  Column(fieldName,
               mapMongooseType(fieldType),
               fieldName = "_id" \/ fieldName = "id",
               ~isRequired,
               /\ ContentIncludes(schemaBody, "unique: true")
               /\ IndexOf(schemaBody, fieldName) < IndexOf(schemaBody, "unique: true"))

\* Where /(\w+):\s*\{[^}]*type:\s*mongoose\.Schema\.Types\.(\w+)/ ends when it
\* starts at the key at position i: [^}]* is greedy, so at the last type
\* reference before the next closing brace; 0 when there is no match at i.
FieldTypeAt(body, i) ==
    LET o == SkipNewlines(body, i + 1)
        c == NextOf(body, o + 1, "}")
        refs == {j \in (o + 1)..(c - 1) : body[j].k = "typeRef"}
    IN  IF body[i].k = "key" /\ o <= Len(body) /\ body[o].k = "{" /\ refs # {}
        THEN CHOOSE j \in refs : \A j2 \in refs : j2 <= j
        ELSE 0

RECURSIVE MongooseFields(_, _)
MongooseFields(schemaBody, i) ==
    IF i > Len(schemaBody) THEN <<>>
    ELSE LET j == FieldTypeAt(schemaBody, i)
         IN  IF j # 0
             THEN <<MongooseColumn(schemaBody, schemaBody[i].v, schemaBody[j].v)>>
                  \o MongooseFields(schemaBody, j + 1)
             ELSE MongooseFields(schemaBody, i + 1)

\* schemaRegex from position i on, the nodes pushed so far being nodes.
RECURSIVE MongooseNodes(_, _, _)
MongooseNodes(toks, i, nodes) ==
    IF i > Len(toks) THEN nodes
    ELSE IF toks[i].k = "schemaDecl"
    THEN MongooseNodes(toks, i + 1,
             Append(nodes, ParsedNode(Len(nodes) + 1, StripSchema(toks[i].v),
                                      MongooseFields(SchemaBody(toks, i + 1), 1))))
    ELSE MongooseNodes(toks, i + 1, nodes)

MongooseParse(content) == [nodes |-> MongooseNodes(content, 1, <<>>), edges |-> <<>>]

(***************************************************************************)
(* SequelizeParser                                                         *)
(***************************************************************************)
RECURSIVE SequelizeNodes(_, _, _)
SequelizeNodes(toks, i, nodes) ==
    IF i > Len(toks) THEN nodes
    ELSE IF toks[i].k = "define"
    THEN SequelizeNodes(toks, i + 1, Append(nodes, ParsedNode(Len(nodes) + 1, toks[i].v, <<>>)))
    ELSE SequelizeNodes(toks, i + 1, nodes)

SequelizeParse(content) == [nodes |-> SequelizeNodes(content, 1, <<>>), edges |-> <<>>]

(***************************************************************************)
(* githubParserService.detectParserType and parseModels                    *)
(***************************************************************************)
detectParserType(content) ==
    IF ContentIncludes(content, "prisma") /\ ContentIncludes(content, "model") THEN "prisma"
    ELSE IF ContentIncludes(content, "mongoose.Schema") THEN "mongoose"
    ELSE IF ContentIncludes(content, "sequelize.define") THEN "sequelize"
    ELSE "null"

\* parser.parse(file.content) of the parser the switch selects.
Parse(parserType, content) ==
    IF parserType = "prisma" THEN PrismaParse(content)
    ELSE IF parserType = "mongoose" THEN MongooseParse(content)
    ELSE SequelizeParse(content)

\* The locals of parseModels.
NoModels == [allNodes |-> <<>>, allEdges |-> <<>>, nodeIdMap |-> NoEntries, nodeCounter |-> 1]

\* A variant of MergeNode that looks for the node by its id, not by its label.
MergeNodeById(acc, node) ==
    IF \E i \in DOMAIN acc.allNodes : acc.allNodes[i].id = node.id
    THEN acc
    ELSE LET newNode ==
                 [node EXCEPT !.id = "table_" \o ToString(acc.nodeCounter),
                              !.position = [x |-> (Len(acc.allNodes) % 3) * 400,
                                            y |-> (Len(acc.allNodes) \div 3) * 300]]
         IN  [acc EXCEPT !.allNodes = Append(@, newNode),
                         !.nodeIdMap = (node.data.label :> newNode.id) @@ @,
                         !.nodeCounter = @ + 1]

\* A variant of MergeNode that keeps the id the parser gave the node.
MergeNodeKeepingId(acc, node) ==
    IF \E i \in DOMAIN acc.allNodes : acc.allNodes[i].data.label = node.data.label
    THEN acc
    ELSE LET newNode ==
                 [node EXCEPT !.position = [x |-> (Len(acc.allNodes) % 3) * 400,
                                            y |-> (Len(acc.allNodes) \div 3) * 300]]
         IN  [acc EXCEPT !.allNodes = Append(@, newNode),
                         !.nodeIdMap = (node.data.label :> newNode.id) @@ @,
                         !.nodeCounter = @ + 1]

\* The body of nodes.forEach: a node whose label is already there is dropped.
MergeNode(acc, node) ==
    IF \E i \in DOMAIN acc.allNodes : acc.allNodes[i].data.label = node.data.label
    THEN acc
    ELSE LET newNode ==
                 [node EXCEPT !.id = "table_" \o ToString(acc.nodeCounter),
                              !.position = [x |-> (Len(acc.allNodes) % 3) * 400,
                                            y |-> (Len(acc.allNodes) \div 3) * 300]]
         IN  [acc EXCEPT !.allNodes = Append(@, newNode),
                         !.nodeIdMap = (node.data.label :> newNode.id) @@ @,
                         !.nodeCounter = @ + 1]

RECURSIVE MergeNodes(_, _)
MergeNodes(acc, nodes) ==
    IF nodes = <<>> THEN acc ELSE MergeNodes(MergeNode(acc, Head(nodes)), Tail(nodes))

\* nodeIdMap.get(name) || name
ResolveEndpoint(acc, name) ==
    IF name \in DOMAIN acc.nodeIdMap THEN acc.nodeIdMap[name] ELSE name

\* The body of edges.forEach.
MergeEdge(acc, edge) ==
    [acc EXCEPT !.allEdges =
        Append(@, [edge EXCEPT !.source = ResolveEndpoint(acc, edge.source),
                               !.target = ResolveEndpoint(acc, edge.target)])]

RECURSIVE MergeEdges(_, _)
MergeEdges(acc, edges) ==
    IF edges = <<>> THEN acc ELSE MergeEdges(MergeEdge(acc, Head(edges)), Tail(edges))

\* A variant of MergeFile that stops the batch at a file of no known dialect:
\* the files before it are kept, the files after it are not read.
MergeFileStopping(acc, file) ==
    LET parserType == detectParserType(file.content)
    IN  IF parserType = "null" \/ acc.nodeCounter = 0
        THEN [acc EXCEPT !.nodeCounter = 0]
        ELSE LET parsed == Parse(parserType, file.content)
             IN  MergeEdges(MergeNodes(acc, parsed.nodes), parsed.edges)

\* The body of files.forEach: a file of no known dialect is skipped; the
\* parsers have no throwing path on a string, so the catch block is not entered.
MergeFile(acc, file) ==
    LET parserType == detectParserType(file.content)
    IN  IF parserType = "null"
        THEN acc
        ELSE LET parsed == Parse(parserType, file.content)
             IN  MergeEdges(MergeNodes(acc, parsed.nodes), parsed.edges)

RECURSIVE MergeFiles(_, _)
MergeFiles(acc, fs) ==
    IF fs = <<>> THEN acc ELSE MergeFiles(MergeFile(acc, Head(fs)), Tail(fs))

parseModels(fs) ==
    LET acc == MergeFiles(NoModels, fs)
    IN  [nodes |-> acc.allNodes, edges |-> acc.allEdges]

(***************************************************************************)
(* The files sync requests fetch.                                          *)
(***************************************************************************)
\* generator client { provider = "prisma-client-js" }, model User, model Post.
PrismaSchemaFile ==
    File("prisma/schema.prisma",
         <<Word("generator"), Word("client"), OpenBrace, Word("provider"), Text("="),
           Text("prisma-client-js"), CloseBrace, Newline,
           Word("model"), Word("User"), OpenBrace, Newline,
           Word("id"), Word("Int"), Attr("@id"), Newline,
           Word("email"), Word("String"), Attr("@unique"), Newline,
           Word("posts"), ListType("Post"), Newline,
           CloseBrace, Newline,
           Word("model"), Word("Post"), OpenBrace, Newline,
           Word("id"), Word("Int"), Attr("@id"), Newline,
           Word("title"), Word("String"), Newline,
           Word("authorId"), Word("Int"), Newline,
           CloseBrace, Newline>>)

\* A comment naming prisma, then another declaration of User and one of Account.
PrismaAccountFile ==
    File("src/models/account.prisma",
         <<Text("//"), Word("prisma"), Newline,
           Word("model"), Word("User"), OpenBrace, Newline,
           Word("id"), Word("Int"), Attr("@id"), Newline,
           Word("name"), Word("String"), Attr("@unique"), Newline,
           CloseBrace, Newline,
           Word("model"), Word("Account"), OpenBrace, Newline,
           Word("id"), Word("Int"), Attr("@id"), Newline,
           CloseBrace, Newline>>)

\* A model file that names no dialect: detectParserType knows no parser for it.
PlainModelFile ==
    File("src/models/tag.prisma",
         <<Word("model"), Word("Tag"), OpenBrace, Newline,
           Word("id"), Word("Int"), Attr("@id"), Newline,
           CloseBrace, Newline>>)

\* const userSchema = new mongoose.Schema({ _id: {...}, name: {...} });
\* mongoose.model('User', userSchema);
MongooseUserFile ==
    File("src/models/user.js",
         <<SchemaDecl("user"), OpenBrace, Newline,
           FieldKey("_id"), OpenBrace, TypeRef("ObjectId"), CloseBrace, Text(","), Newline,
           FieldKey("name"), OpenBrace, TypeRef("String"), Text(","), Option("required: true"),
           CloseBrace, Newline,
           CloseBrace, Text(");"), Newline,
           Text("mongoose.model("), Text("'User'"), Text(","), Word("userSchema"), Text(");"), Newline>>)

\* const postSchema = new mongoose.Schema({ title: {...} });
\* const commentSchema = new mongoose.Schema({ body: {...} });
MongooseBlogFile ==
    File("src/models/blog.js",
         <<SchemaDecl("post"), OpenBrace, Newline,
           FieldKey("title"), OpenBrace, TypeRef("String"), CloseBrace, Newline,
           CloseBrace, Text(");"), Newline,
           SchemaDecl("comment"), OpenBrace, Newline,
           FieldKey("body"), OpenBrace, TypeRef("String"), Text(","), Option("required: true"),
           CloseBrace, Newline,
           CloseBrace, Text(");"), Newline>>)

\* sequelize.define('User', {...}); sequelize.define('Order', {...}); and User again.
SequelizeFile ==
    File("src/models/index.js",
         <<Define("User"), Text(","), OpenBrace, CloseBrace, Text(");"), Newline,
           Define("Order"), Text(","), OpenBrace, CloseBrace, Text(");"), Newline,
           Define("User"), Text(","), OpenBrace, CloseBrace, Text(");"), Newline>>)

GarbageFile ==
    File("src/models/README.md", <<Text("#"), Word("hello"), Word("world"), Newline>>)

FilePool ==
    {PrismaSchemaFile, PrismaAccountFile, PlainModelFile, MongooseUserFile, MongooseBlogFile,
     SequelizeFile, GarbageFile}

\* A repository holds a file once: the batches are the sequences of distinct files.
FileBatches ==
    {fs \in SeqsUpTo(FilePool, MaxFiles) : \A i, j \in DOMAIN fs : fs[i] = fs[j] => i = j}

\* No sync request is under way.
NotSynced == [schema |-> EmptyModel, filesProcessed |-> 0]

IngestIdle ==
    /\ files = <<>>
    /\ synced = NotSynced
    /\ reordered = EmptyModel
    /\ cleaned = EmptyModel
    /\ ipc = "idle"

\* The module is loaded and handles no concurrent requests.
ServiceIdle ==
    /\ typeMappings = TypeMappingTables
    /\ requests = <<>>

(***************************************************************************)
(* The version store: the projects and the SchemaVersion documents the     *)
(* version routes read and write.  A project is the document of            *)
(* models/Diagrams the routes look up, with the id of its owner.  The      *)
(* label and message of a version bear on neither its number nor the       *)
(* access to it and are left out.                                          *)
(***************************************************************************)
\* The stored versions of all projects together are at most this many.
MaxVersions == 2

Users == {"u1", "u2"}

\* The project ids requests are made with; "p3" is the id of no project.
ProjectIds == {"p1", "p2", "p3"}

\* Project.findById: the stored projects, by id.
StoredProjects == ("p1" :> [userId |-> "u1"]) @@ ("p2" :> [userId |-> "u2"])

\* A request body without a schema.
Null == [null |-> TRUE]

\* new SchemaVersion({projectId, versionNumber, schemaJSON, createdBy})
SchemaVersion(id, projectId, versionNumber, schemaJSON, userId) ==
    [id |-> id, projectId |-> projectId, versionNumber |-> versionNumber,
     schemaJSON |-> schemaJSON, createdBy |-> userId]

\* A handler of the create route: where it stands and its locals.
Handler(at, userId, projectId, sch, nextVersionNumber) ==
    [pc |-> at, user |-> userId, projectId |-> projectId, schema |-> sch,
     nextVersionNumber |-> nextVersionNumber]

NoHandler == Handler("idle", "", "", Null, 0)

\* res.json of a route: the route, the authenticated user of the request, the
\* project the request is about (of its path, or of the version it names), the
\* status, and the data of the body (versions, a restored schema, a diff).
Response(route, userId, projectId, status, vs, sch, diff) ==
    [route |-> route, user |-> userId, projectId |-> projectId, status |-> status,
     versions |-> vs, schema |-> sch, diff |-> diff]

NoResponse == Response("none", "", "", 0, <<>>, Null, Null)

\* No request to the version routes was made.
VersionsIdle ==
    /\ projects = StoredProjects
    /\ versions = <<>>
    /\ handlers = <<>>
    /\ response = NoResponse

MigrateIdle ==
    /\ schema = [nodes |-> <<>>, edges |-> <<>>]
    /\ sourceDbType = <<>>
    /\ targetDbType = <<>>
    /\ mpc = "idle"
    /\ aiCalls = 0
    /\ mappingRuns = 0
    /\ aiReply = NoReply
    /\ result = NoResult

InitDiff ==
    /\ before \in DiffSchemas
    /\ after \in DiffSchemas
    /\ diffFwd = EmptyDiff
    /\ diffRev = EmptyDiff
    /\ diffSelf = EmptyDiff
    /\ diffPerm = EmptyDiff
    /\ pc = "forward"
    /\ MigrateIdle
    /\ IngestIdle
    /\ ServiceIdle
    /\ VersionsIdle

DiffForward ==
    /\ pc = "forward"
    /\ diffFwd' = computeDiff(before, after)
    /\ pc' = "backward"
    /\ UNCHANGED <<before, after, diffRev, diffSelf, diffPerm>>
    /\ UNCHANGED <<migrateVars, ingestVars, serviceVars, versionVars>>

DiffBackward ==
    /\ pc = "backward"
    /\ diffRev' = computeDiff(after, before)
    /\ pc' = "self"
    /\ UNCHANGED <<before, after, diffFwd, diffSelf, diffPerm>>
    /\ UNCHANGED <<migrateVars, ingestVars, serviceVars, versionVars>>

DiffSelf ==
    /\ pc = "self"
    /\ diffSelf' = computeDiff(before, before)
    /\ pc' = "permuted"
    /\ UNCHANGED <<before, after, diffFwd, diffRev, diffPerm>>
    /\ UNCHANGED <<migrateVars, ingestVars, serviceVars, versionVars>>

\* Reordering both inputs is reordering one and then the other, so one side at a
\* time covers every pair of reorderings.
DiffPermuted ==
    /\ pc = "permuted"
    /\ \E p \in ({before} \X Reorderings(after)) \cup (Reorderings(before) \X {after}) :
          diffPerm' = computeDiff(p[1], p[2])
    /\ pc' = "done"
    /\ UNCHANGED <<before, after, diffFwd, diffRev, diffSelf>>
    /\ UNCHANGED <<migrateVars, ingestVars, serviceVars, versionVars>>

NextDiff == DiffForward \/ DiffBackward \/ DiffSelf \/ DiffPermuted

SpecDiff == InitDiff /\ [][NextDiff]_vars

(***************************************************************************)
(* The conversion requests: one call of migrateSchema, suspended at the    *)
(* collaborator call when it takes the AI-assisted path.                   *)
(***************************************************************************)
DiffIdle ==
    /\ before = EmptyModel
    /\ after = EmptyModel
    /\ diffFwd = EmptyDiff
    /\ diffRev = EmptyDiff
    /\ diffSelf = EmptyDiff
    /\ diffPerm = EmptyDiff
    /\ pc = "idle"

InitMigrate ==
    /\ schema \in MigrateSchemas
    /\ sourceDbType \in DbTypeNames
    /\ targetDbType \in DbTypeNames
    /\ mpc = "called"
    /\ aiCalls = 0
    /\ mappingRuns = 0
    /\ aiReply = NoReply
    /\ result = NoResult
    /\ DiffIdle
    /\ IngestIdle
    /\ ServiceIdle
    /\ VersionsIdle

\* What leaves migrateSchema: a result as it is, an error wrapped by the catch block.
Leave(r) == IF r.kind = "ok" THEN r ELSE Thrown("Failed to migrate schema: " \o r.message)

\* migrateSchema up to its return, its throw or the collaborator call.
MigrateCall ==
    /\ mpc = "called"
    /\ LET normalizedSource == normalizeDbType(sourceDbType)
           normalizedTarget == normalizeDbType(targetDbType)
       IN  IF normalizedSource = normalizedTarget
           THEN /\ result' = Leave(Thrown("Source and target database types cannot be the same"))
                /\ mpc' = "thrown"
                /\ UNCHANGED <<aiCalls, mappingRuns>>
           ELSE IF useAI(schema, normalizedSource, normalizedTarget)
           THEN /\ aiCalls' = aiCalls + 1
                /\ mpc' = "awaitAI"
                /\ UNCHANGED <<result, mappingRuns>>
           ELSE /\ result' = Leave(migrateWithMapping(schema, normalizedSource, normalizedTarget))
                /\ mappingRuns' = mappingRuns + 1
                /\ mpc' = IF result'.kind = "ok" THEN "returned" ELSE "thrown"
                /\ UNCHANGED aiCalls
    /\ UNCHANGED <<schema, sourceDbType, targetDbType, aiReply>>
    /\ UNCHANGED <<diffVars, ingestVars, serviceVars, versionVars>>

\* A variant of CollaboratorReplies that asks the collaborator again after a
\* failed or badly shaped reply.
CollaboratorRepliesRetrying ==
    /\ mpc = "awaitAI"
    /\ \E reply \in AIReplies :
          /\ aiReply' = reply
          /\ IF ResponseValid(reply) \/ aiCalls >= 2
             THEN /\ result' = Leave(AfterReply(schema, normalizeDbType(sourceDbType),
                                                normalizeDbType(targetDbType), reply))
                  /\ mappingRuns' = IF ResponseValid(reply) THEN mappingRuns ELSE mappingRuns + 1
                  /\ mpc' = IF result'.kind = "ok" THEN "returned" ELSE "thrown"
                  /\ UNCHANGED aiCalls
             ELSE /\ aiCalls' = aiCalls + 1
                  /\ mpc' = "awaitAI"
                  /\ UNCHANGED <<result, mappingRuns>>
    /\ UNCHANGED <<schema, sourceDbType, targetDbType>>
    /\ UNCHANGED <<diffVars, ingestVars, serviceVars, versionVars>>

\* The collaborator replies (or fails) and migrateWithAI, then migrateSchema, finish.
CollaboratorReplies ==
    /\ mpc = "awaitAI"
    /\ \E reply \in AIReplies :
          /\ aiReply' = reply
          /\ result' = Leave(AfterReply(schema, normalizeDbType(sourceDbType),
                                        normalizeDbType(targetDbType), reply))
          /\ mappingRuns' = IF ResponseValid(reply) THEN mappingRuns ELSE mappingRuns + 1
    /\ mpc' = IF result'.kind = "ok" THEN "returned" ELSE "thrown"
    /\ UNCHANGED <<schema, sourceDbType, targetDbType, aiCalls>>
    /\ UNCHANGED <<diffVars, ingestVars, serviceVars, versionVars>>

NextMigrate == MigrateCall \/ CollaboratorReplies

SpecMigrate == InitMigrate /\ [][NextMigrate]_vars

(***************************************************************************)
(* The sync requests: one batch of fetched files, parsed by the route, and *)
(* parsed again in another order and without the files parseModels skips.  *)
(***************************************************************************)
InitIngest ==
    /\ files \in FileBatches
    /\ synced = NotSynced
    /\ reordered = EmptyModel
    /\ cleaned = EmptyModel
    /\ ipc = "sync"
    /\ DiffIdle
    /\ MigrateIdle
    /\ ServiceIdle
    /\ VersionsIdle

\* The file is of a dialect detectParserType knows.
Recognized(file) == detectParserType(file.content) # "null"

\* router.post('/sync') from the fetched files on.
Sync ==
    /\ ipc = "sync"
    /\ synced' = [schema |-> parseModels(files), filesProcessed |-> Len(files)]
    /\ ipc' = "reordered"
    /\ UNCHANGED <<files, reordered, cleaned>>
    /\ UNCHANGED <<diffVars, migrateVars, serviceVars, versionVars>>

SyncReordered ==
    /\ ipc = "reordered"
    /\ \E fs \in Perms(files) : reordered' = parseModels(fs)
    /\ ipc' = "cleaned"
    /\ UNCHANGED <<files, synced, cleaned>>
    /\ UNCHANGED <<diffVars, migrateVars, serviceVars, versionVars>>

SyncCleaned ==
    /\ ipc = "cleaned"
    /\ cleaned' = parseModels(SelectSeq(files, Recognized))
    /\ ipc' = "done"
    /\ UNCHANGED <<files, synced, reordered>>
    /\ UNCHANGED <<diffVars, migrateVars, serviceVars, versionVars>>

NextIngest == Sync \/ SyncReordered \/ SyncCleaned

SpecIngest == InitIngest /\ [][NextIngest]_vars

(***************************************************************************)
(* The services under concurrent load: every client has one request under  *)
(* way, a conversion (suspended at the collaborator call when it takes the *)
(* AI-assisted path), a diff, a validation or an ingestion.  The locals of *)
(* a call are the fields of its request; TYPE_MAPPINGS is the one object   *)
(* the calls share.                                                        *)
(***************************************************************************)
Clients == {"c1", "c2"}

\* An entity without a display name, one of its attributes without a type.
UnnamedModel ==
    [nodes |-> <<Node("table_1", "", <<cId, Column("note", "", FALSE, TRUE, FALSE)>>)>>,
     edges |-> <<>>]

\* An attribute without a type.
UntypedModel ==
    [nodes |-> <<Node("table_1", "User", <<cId, cEmail>>),
                 Node("table_2", "Order", <<cId, Column("user_id", "", FALSE, FALSE, FALSE)>>)>>,
     edges |-> <<Edge("e2-1", "table_2", "table_1", "user_id-right", "id-left", "N:1")>>]

\* A relationship whose target is no entity of the model.
DanglingModel ==
    [nodes |-> <<Node("table_1", "User", <<cId, cEmail>>)>>,
     edges |-> <<Edge("e1-9", "table_1", "table_9", "id-right", "id-left", "1:N")>>]

Request(kind, sch, other, source, target, fs) ==
    [kind |-> kind, schema |-> sch, other |-> other, sourceDbType |-> source,
     targetDbType |-> target, files |-> fs, pc |-> "called", aiReply |-> NoReply,
     outcome |-> NoResult]

MigrateRequest(sch, source, target) == Request("migrate", sch, EmptyModel, source, target, <<>>)
DiffRequest(schema1, schema2) == Request("diff", schema1, schema2, <<>>, <<>>, <<>>)
ValidateRequest(sch) == Request("validate", sch, EmptyModel, <<>>, <<>>, <<>>)
IngestRequest(fs) == Request("ingest", EmptyModel, EmptyModel, <<>>, <<>>, fs)

ServiceRequests ==
    { MigrateRequest(ExampleModel, NameMongoDB, POSTGRES),
      MigrateRequest(ExampleModel, POSTGRES, MYSQL),
      MigrateRequest(UnnamedModel, POSTGRES, MYSQL),
      MigrateRequest(TypedModel, SQL, MYSQL),
      MigrateRequest(DanglingModel, MYSQL, NamePostgreSQL),
      MigrateRequest(ExampleModel, POSTGRES, POSTGRES),
      DiffRequest(ExampleModel, DanglingModel),
      DiffRequest(UnnamedModel, ExampleModel),
      ValidateRequest(ExampleModel),
      ValidateRequest(DanglingModel),
      ValidateRequest(UnnamedModel),
      ValidateRequest(UntypedModel),
      IngestRequest(<<PrismaSchemaFile, GarbageFile>>),
      IngestRequest(<<SequelizeFile, PrismaAccountFile>>) }

InitService ==
    /\ typeMappings = TypeMappingTables
    /\ requests \in [Clients -> ServiceRequests]
    /\ DiffIdle
    /\ MigrateIdle
    /\ IngestIdle
    /\ VersionsIdle

\* The request ends: with a value, or with the error the catch block rethrows.
Ended(req, r) == [req EXCEPT !.pc = IF r.kind = "ok" THEN "returned" ELSE "thrown", !.outcome = r]

\* A variant of ServeMigrate whose deterministic path remembers the type it
\* rendered a primary key with in the table of the dialect pair.
ServeMigrateMemoizing(c) ==
    LET req == requests[c]
        normalizedSource == normalizeDbType(req.sourceDbType)
        normalizedTarget == normalizeDbType(req.targetDbType)
        PrimaryKeys(node) == {k \in DOMAIN node.data.columns : node.data.columns[k].isPK}
        keys == UNION {{ToUpperCase(req.schema.nodes[i].data.columns[k].type) :
                            k \in PrimaryKeys(req.schema.nodes[i])} : i \in DOMAIN req.schema.nodes}
    IN  /\ req.kind = "migrate"
        /\ req.pc = "called"
        /\ IF normalizedSource = normalizedTarget
           THEN /\ requests' = [requests EXCEPT ![c] =
                        Ended(req, Leave(Thrown("Source and target database types cannot be the same")))]
                /\ UNCHANGED typeMappings
           ELSE IF useAI(req.schema, normalizedSource, normalizedTarget)
           THEN /\ requests' = [requests EXCEPT ![c] = [req EXCEPT !.pc = "awaitAI"]]
                /\ UNCHANGED typeMappings
           ELSE /\ requests' = [requests EXCEPT ![c] =
                        Ended(req, Leave(migrateWithMapping(req.schema, normalizedSource, normalizedTarget)))]
                /\ typeMappings' = [typeMappings EXCEPT ![<<normalizedSource, normalizedTarget>>] =
                        [key \in keys |-> PrimaryKeyType(normalizedTarget)] @@ @]
        /\ UNCHANGED <<diffVars, migrateVars, ingestVars, versionVars>>

\* migrateSchema of client c up to its return, its throw or the collaborator call.
ServeMigrate(c) ==
    LET req == requests[c]
        normalizedSource == normalizeDbType(req.sourceDbType)
        normalizedTarget == normalizeDbType(req.targetDbType)
    IN  /\ req.kind = "migrate"
        /\ req.pc = "called"
        /\ requests' = [requests EXCEPT ![c] =
              IF normalizedSource = normalizedTarget
              THEN Ended(req, Leave(Thrown("Source and target database types cannot be the same")))
              ELSE IF useAI(req.schema, normalizedSource, normalizedTarget)
              THEN [req EXCEPT !.pc = "awaitAI"]
              ELSE Ended(req, Leave(migrateWithMapping(req.schema, normalizedSource, normalizedTarget)))]
        /\ UNCHANGED typeMappings
        /\ UNCHANGED <<diffVars, migrateVars, ingestVars, versionVars>>

\* The collaborator answers client c's call and its migrateWithAI and migrateSchema finish.
ServeCollaborator(c) ==
    LET req == requests[c]
    IN  /\ req.kind = "migrate"
        /\ req.pc = "awaitAI"
        /\ \E reply \in AIReplies :
              requests' = [requests EXCEPT ![c] =
                  Ended([req EXCEPT !.aiReply = reply],
                        Leave(AfterReply(req.schema, normalizeDbType(req.sourceDbType),
                                         normalizeDbType(req.targetDbType), reply)))]
        /\ UNCHANGED typeMappings
        /\ UNCHANGED <<diffVars, migrateVars, ingestVars, versionVars>>

\* computeDiff of client c: it has no suspension point.
ServeDiff(c) ==
    LET req == requests[c]
    IN  /\ req.kind = "diff"
        /\ req.pc = "called"
        /\ requests' = [requests EXCEPT ![c] =
              [req EXCEPT !.pc = "returned", !.outcome = computeDiff(req.schema, req.other)]]
        /\ UNCHANGED typeMappings
        /\ UNCHANGED <<diffVars, migrateVars, ingestVars, versionVars>>

\* A variant of ServeValidate that repairs what it finds: an attribute
\* without a type is given the type VARCHAR in the model it was handed.
ServeValidateRepairing(c) ==
    LET req == requests[c]
        Repaired(col) == IF Missing(col.type) THEN [col EXCEPT !.type = "VARCHAR"] ELSE col
        RepairedNode(node) ==
            [node EXCEPT !.data.columns = [k \in DOMAIN node.data.columns |-> Repaired(node.data.columns[k])]]
    IN  /\ req.kind = "validate"
        /\ req.pc = "called"
        /\ requests' = [requests EXCEPT ![c] =
              [req EXCEPT !.pc = "returned", !.outcome = validateSchema(req.schema),
                          !.schema.nodes = [i \in DOMAIN req.schema.nodes |-> RepairedNode(req.schema.nodes[i])]]]
        /\ UNCHANGED typeMappings
        /\ UNCHANGED <<diffVars, migrateVars, ingestVars, versionVars>>

\* validateSchema of client c.
ServeValidate(c) ==
    LET req == requests[c]
    IN  /\ req.kind = "validate"
        /\ req.pc = "called"
        /\ requests' = [requests EXCEPT ![c] =
              [req EXCEPT !.pc = "returned", !.outcome = validateSchema(req.schema)]]
        /\ UNCHANGED typeMappings
        /\ UNCHANGED <<diffVars, migrateVars, ingestVars, versionVars>>

\* parseModels of client c.
ServeIngest(c) ==
    LET req == requests[c]
    IN  /\ req.kind = "ingest"
        /\ req.pc = "called"
        /\ requests' = [requests EXCEPT ![c] =
              [req EXCEPT !.pc = "returned", !.outcome = parseModels(req.files)]]
        /\ UNCHANGED typeMappings
        /\ UNCHANGED <<diffVars, migrateVars, ingestVars, versionVars>>

NextService ==
    \E c \in Clients :
        \/ ServeMigrate(c)
        \/ ServeCollaborator(c)
        \/ ServeDiff(c)
        \/ ServeValidate(c)
        \/ ServeIngest(c)

SpecService == InitService /\ [][NextService]_vars

(***************************************************************************)
(* The version routes (routes/versions.js) over versionService: every      *)
(* request comes with the user fetchUser authenticated.  The create route  *)
(* is suspended at the two awaits of createVersion; the other routes only  *)
(* read documents that are never changed, and take one step.               *)
(***************************************************************************)
\* The schemas create requests are made with.
VersionSchemas == {EmptyModel, ExampleModel}

\* The version ids requests are made with: those the store can hold, and one more.
VersionIds == 1..(MaxVersions + 1)

\* A version id missing from the body of a compare request.
NoVersionId == 0

\* project.userId.toString() !== req.user._id.toString()
AccessDenied(project, userId) == project.userId # userId

\* SchemaVersion.find({ projectId })
VersionsOf(projectId) == SelectSeq(versions, LAMBDA version : version.projectId = projectId)

\* createVersion up to its first await and from it to the second: the number
\* after that of the latest version of the project, 1 when it has none.
nextVersionNumber(projectId) ==
    LET numbers == {version.versionNumber : version \in Range(VersionsOf(projectId))}
    IN  IF numbers = {} THEN 1
        ELSE (CHOOSE latest \in numbers : \A n \in numbers : n <= latest) + 1

\* getVersions: the versions of the project by descending number; the order of
\* versions with the same number is left to the store.
getVersions(projectId) ==
    {vs \in Perms(VersionsOf(projectId)) :
        \A i, j \in DOMAIN vs : i < j => vs[i].versionNumber >= vs[j].versionNumber}

\* getVersion finds the version (it throws 'Version not found' otherwise).
HasVersion(versionId) == \E i \in DOMAIN versions : versions[i].id = versionId

getVersion(versionId) == versions[CHOOSE i \in DOMAIN versions : versions[i].id = versionId]

\* A response without data: 400, 403, 404 or 500.
Failure(route, userId, projectId, status) ==
    Response(route, userId, projectId, status, <<>>, Null, Null)

\* The create handlers under way.
Creating == {c \in Clients : handlers[c].pc # "idle"}

InitVersions ==
    /\ projects = StoredProjects
    /\ versions = <<>>
    /\ handlers = [c \in Clients |-> NoHandler]
    /\ response = NoResponse
    /\ DiffIdle
    /\ MigrateIdle
    /\ IngestIdle
    /\ ServiceIdle

\* GET /:projectId/versions
ListVersions ==
    /\ \E userId \in Users, projectId \in ProjectIds :
          IF projectId \notin DOMAIN projects
          THEN response' = Failure("list", userId, projectId, 404)
          ELSE IF AccessDenied(projects[projectId], userId)
          THEN response' = Failure("list", userId, projectId, 403)
          ELSE \E vs \in getVersions(projectId) :
                  response' = Response("list", userId, projectId, 200, vs, Null, Null)
    /\ UNCHANGED <<projects, versions, handlers>>
    /\ UNCHANGED <<diffVars, migrateVars, ingestVars, serviceVars>>

\* POST /:projectId/versions up to the call of createVersion
CreateVersionBegin(c) ==
    /\ handlers[c].pc = "idle"
    /\ \E userId \in Users, projectId \in ProjectIds, sch \in VersionSchemas \cup {Null} :
          IF sch = Null
          THEN /\ response' = Failure("create", userId, projectId, 400)
               /\ UNCHANGED handlers
          ELSE IF projectId \notin DOMAIN projects
          THEN /\ response' = Failure("create", userId, projectId, 404)
               /\ UNCHANGED handlers
          ELSE IF AccessDenied(projects[projectId], userId)
          THEN /\ response' = Failure("create", userId, projectId, 403)
               /\ UNCHANGED handlers
          ELSE /\ Len(versions) + Cardinality(Creating) < MaxVersions
               /\ handlers' = [handlers EXCEPT ![c] = Handler("findLatest", userId, projectId, sch, 0)]
               /\ response' = NoResponse
    /\ UNCHANGED <<projects, versions>>
    /\ UNCHANGED <<diffVars, migrateVars, ingestVars, serviceVars>>

\* createVersion: SchemaVersion.findOne({ projectId }).sort({ versionNumber: -1 })
CreateVersionFindLatest(c) ==
    /\ handlers[c].pc = "findLatest"
    /\ handlers' = [handlers EXCEPT ![c] =
                       [@ EXCEPT !.pc = "save",
                                 !.nextVersionNumber = nextVersionNumber(handlers[c].projectId)]]
    /\ response' = NoResponse
    /\ UNCHANGED <<projects, versions>>
    /\ UNCHANGED <<diffVars, migrateVars, ingestVars, serviceVars>>

\* createVersion: version.save(), and the response of the route
CreateVersionSave(c) ==
    /\ handlers[c].pc = "save"
    /\ LET h == handlers[c]
           version == SchemaVersion(Len(versions) + 1, h.projectId, h.nextVersionNumber,
                                    h.schema, h.user)
       IN  /\ versions' = Append(versions, version)
           /\ response' = Response("create", h.user, h.projectId, 200, <<version>>, Null, Null)
    /\ handlers' = [handlers EXCEPT ![c] = NoHandler]
    /\ UNCHANGED projects
    /\ UNCHANGED <<diffVars, migrateVars, ingestVars, serviceVars>>

\* GET /versions/:versionId
GetVersion ==
    /\ \E userId \in Users, versionId \in VersionIds :
          IF ~HasVersion(versionId)
          THEN response' = Failure("get", userId, "", 500)
          ELSE LET version == getVersion(versionId)
               IN  IF version.projectId \notin DOMAIN projects
                   THEN response' = Failure("get", userId, version.projectId, 404)
                   ELSE IF AccessDenied(projects[version.projectId], userId)
                   THEN response' = Failure("get", userId, version.projectId, 403)
                   ELSE response' = Response("get", userId, version.projectId, 200,
                                             <<version>>, Null, Null)
    /\ UNCHANGED <<projects, versions, handlers>>
    /\ UNCHANGED <<diffVars, migrateVars, ingestVars, serviceVars>>

\* A variant of RestoreVersion that does not compare the owner of the project
\* with the user of the request.
RestoreVersionUnchecked ==
    /\ \E userId \in Users, versionId \in VersionIds :
          IF ~HasVersion(versionId)
          THEN response' = Failure("restore", userId, "", 500)
          ELSE LET version == getVersion(versionId)
               IN  IF version.projectId \notin DOMAIN projects
                   THEN response' = Failure("restore", userId, version.projectId, 404)
                   ELSE response' = Response("restore", userId, version.projectId, 200,
                                             <<version>>, version.schemaJSON, Null)
    /\ UNCHANGED <<projects, versions, handlers>>
    /\ UNCHANGED <<diffVars, migrateVars, ingestVars, serviceVars>>

\* POST /versions/:versionId/restore
RestoreVersion ==
    /\ \E userId \in Users, versionId \in VersionIds :
          IF ~HasVersion(versionId)
          THEN response' = Failure("restore", userId, "", 500)
          ELSE LET version == getVersion(versionId)
               IN  IF version.projectId \notin DOMAIN projects
                   THEN response' = Failure("restore", userId, version.projectId, 404)
                   ELSE IF AccessDenied(projects[version.projectId], userId)
                   THEN response' = Failure("restore", userId, version.projectId, 403)
                   ELSE response' = Response("restore", userId, version.projectId, 200,
                                             <<version>>, version.schemaJSON, Null)
    /\ UNCHANGED <<projects, versions, handlers>>
    /\ UNCHANGED <<diffVars, migrateVars, ingestVars, serviceVars>>

\* POST /versions/compare
CompareVersions ==
    /\ \E userId \in Users, versionId1, versionId2 \in VersionIds \cup {NoVersionId} :
          IF versionId1 = NoVersionId \/ versionId2 = NoVersionId
          THEN response' = Failure("compare", userId, "", 400)
          ELSE IF ~HasVersion(versionId1) \/ ~HasVersion(versionId2)
          THEN response' = Failure("compare", userId, "", 500)
          ELSE LET version1 == getVersion(versionId1)
                   version2 == getVersion(versionId2)
               IN  IF version1.projectId # version2.projectId
                   THEN response' = Failure("compare", userId, version1.projectId, 400)
                   ELSE IF version1.projectId \notin DOMAIN projects
                   THEN response' = Failure("compare", userId, version1.projectId, 404)
                   ELSE IF AccessDenied(projects[version1.projectId], userId)
                   THEN response' = Failure("compare", userId, version1.projectId, 403)
                   ELSE response' = Response("compare", userId, version1.projectId, 200,
                                             <<version1, version2>>, Null,
                                             computeDiff(version1.schemaJSON, version2.schemaJSON))
    /\ UNCHANGED <<projects, versions, handlers>>
    /\ UNCHANGED <<diffVars, migrateVars, ingestVars, serviceVars>>

NextVersions ==
    \/ ListVersions
    \/ GetVersion
    \/ RestoreVersion
    \/ CompareVersions
    \/ \E c \in Clients :
          \/ CreateVersionBegin(c)
          \/ CreateVersionFindLatest(c)
          \/ CreateVersionSave(c)

SpecVersions == InitVersions /\ [][NextVersions]_vars

(***************************************************************************)
(* Properties of the diff engine.                                          *)
(***************************************************************************)
FwdDone == pc \in {"backward", "self", "permuted", "done"}
RevDone == pc \in {"self", "permuted", "done"}
SelfDone == pc \in {"permuted", "done"}
PermDone == pc = "done"

\* C1. Diff symmetry: the entities (relationships) computeDiff(A,B) reports added
\* are, as a set, the ones computeDiff(B,A) reports removed, and the ones it
\* reports removed are the ones computeDiff(B,A) reports added.
DiffSymmetry ==
    RevDone =>
        /\ Range(diffFwd.nodes.added) = Range(diffRev.nodes.removed)
        /\ Range(diffFwd.nodes.removed) = Range(diffRev.nodes.added)
        /\ Range(diffFwd.edges.added) = Range(diffRev.edges.removed)
        /\ Range(diffFwd.edges.removed) = Range(diffRev.edges.added)

\* Both directions were computed, and the forward diff adds an entity and a
\* relationship while another relationship of `before` matches one of `after`.
DiffSymmetryWitness ==
    /\ RevDone
    /\ diffFwd.nodes.added # <<>>
    /\ diffFwd.edges.added # <<>>
    /\ diffRev.edges.removed # <<>>
    /\ diffRev.nodes.removed # <<>>

\* C2. Diff idempotence: computeDiff(A,A) reports nothing added, removed or
\* modified, for entities and for relationships, for every valid model A.
DiffIdempotence == SelfDone => diffSelf = EmptyDiff

\* The attributes of an entity as the unordered set of its
\* (name, type, PK, nullable, unique) tuples.
AttributeSet(n) == Range(n.data.columns)

NodeIds(m) == {m.nodes[i].id : i \in DOMAIN m.nodes}

\* C3. Entity classification: removed iff the id occurs only in before, added iff
\* only in after, and an id in both is reported modified (with both snapshots)
\* iff the unordered attribute sets differ.
EntityClassification ==
    FwdDone =>
        /\ Range(diffFwd.nodes.removed) = {n \in Range(before.nodes) : n.id \notin NodeIds(after)}
        /\ Range(diffFwd.nodes.added) = {n \in Range(after.nodes) : n.id \notin NodeIds(before)}
        /\ \A n1 \in Range(before.nodes), n2 \in Range(after.nodes) :
              n1.id = n2.id =>
                  (([id |-> n2.id, original |-> n1, modified |-> n2] \in Range(diffFwd.nodes.modified))
                      <=> AttributeSet(n1) # AttributeSet(n2))

\* The (source id, target id) pair of a relationship.
EdgePair(e) == <<e.source, e.target>>

EdgePairs(m) == {EdgePair(m.edges[i]) : i \in DOMAIN m.edges}

\* The fields of a relationship other than its id and its endpoints' entity ids:
\* the two endpoint attribute references and the cardinality.
EdgeFields(e) == <<e.sourceHandle, e.targetHandle, e.label>>

\* C4. Relationship classification: matched by the (source id, target id) pair; a
\* pair only in before is removed, a pair only in after is added, and a pair in
\* both is modified iff the two relationships differ in an endpoint attribute
\* reference or in cardinality (not when only the relationship id differs).
RelationshipClassification ==
    FwdDone =>
        /\ Range(diffFwd.edges.removed) = {e \in Range(before.edges) : EdgePair(e) \notin EdgePairs(after)}
        /\ Range(diffFwd.edges.added) = {e \in Range(after.edges) : EdgePair(e) \notin EdgePairs(before)}
        /\ \A e1 \in Range(before.edges), e2 \in Range(after.edges) :
              EdgePair(e1) = EdgePair(e2) =>
                  ((\E m \in Range(diffFwd.edges.modified) : EdgePair(m.modified) = EdgePair(e2))
                      <=> EdgeFields(e1) # EdgeFields(e2))

\* No two entries of the list s, read through P, have the same pair.
OnePerPair(s, P(_)) == \A i, j \in DOMAIN s : EdgePair(P(s[i])) = EdgePair(P(s[j])) => i = j

Itself(e) == e
ModifiedOf(m) == m.modified

\* C5. Each of edges.added, edges.removed and edges.modified holds at most one
\* entry per (source id, target id) pair.
AtMostOnePerPair ==
    FwdDone =>
        /\ OnePerPair(diffFwd.edges.added, Itself)
        /\ OnePerPair(diffFwd.edges.removed, Itself)
        /\ OnePerPair(diffFwd.edges.modified, ModifiedOf)

\* An entity with its attributes read as a set, and a change set with each of its
\* six collections read as a set.
EntityAsSet(n) == [id |-> n.id, label |-> n.data.label, attributes |-> AttributeSet(n)]

ModifiedEntityAsSet(m) ==
    [id |-> m.id, original |-> EntityAsSet(m.original), modified |-> EntityAsSet(m.modified)]

ChangeSetAsSets(d) ==
    [nodes |-> [added |-> {EntityAsSet(n) : n \in Range(d.nodes.added)},
                removed |-> {EntityAsSet(n) : n \in Range(d.nodes.removed)},
                modified |-> {ModifiedEntityAsSet(m) : m \in Range(d.nodes.modified)}],
     edges |-> [added |-> Range(d.edges.added),
                removed |-> Range(d.edges.removed),
                modified |-> Range(d.edges.modified)]]

\* C6. Order independence: reordering the entities, the relationships and the
\* attributes inside an entity of an input leaves the change set, read as sets,
\* unchanged.
OrderIndependence == PermDone => ChangeSetAsSets(diffPerm) = ChangeSetAsSets(diffFwd)

\* C25. Relationship key injectivity: in a comparison, relationships of the two
\* snapshots with different (source id, target id) pairs have different
\* matching keys, ids that hold a '-' included, so computeDiff never treats
\* them as one relationship: a relationship it reports modified has the pair
\* of its original.
RelationshipKeyInjectivity ==
    FwdDone =>
        /\ \A e1 \in Range(before.edges), e2 \in Range(after.edges) :
              EdgePair(e1) # EdgePair(e2) => EdgeKey(e1) # EdgeKey(e2)
        /\ \A i \in DOMAIN diffFwd.edges.modified :
              EdgePair(diffFwd.edges.modified[i].original)
                 = EdgePair(diffFwd.edges.modified[i].modified)

(***************************************************************************)
(* Properties of the conversion engine.                                    *)
(***************************************************************************)
Finished == mpc \in {"returned", "thrown"}

NormalizedSource == normalizeDbType(sourceDbType)
NormalizedTarget == normalizeDbType(targetDbType)

SupportedDialects == {MONGO, POSTGRES, MYSQL, SQL}
RelationalDialects == {POSTGRES, MYSQL, SQL}

\* The request names two distinct supported dialects.
SupportedPair ==
    /\ NormalizedSource \in SupportedDialects
    /\ NormalizedTarget \in SupportedDialects
    /\ NormalizedSource # NormalizedTarget

\* The collaborator answered with JSON holding DDL text and a mapping array.
WellShaped(reply) == reply.kind = "json" /\ reply.targetDDL # <<>> /\ reply.isArray

\* The collaborator was called and threw, or answered with something else.
CollaboratorFailed == aiCalls > 0 /\ aiReply.kind # "none" /\ ~WellShaped(aiReply)

NoAttributes == \A i \in DOMAIN schema.nodes : schema.nodes[i].data.columns = <<>>

\* C7 as claimed. Conversion totality: for every ordered pair of distinct
\* supported dialects and whatever the collaborator does, migrateSchema returns
\* DDL text and does not throw; for a model with no entities the DDL and the
\* explanation list are empty.
ConversionTotality ==
    (Finished /\ SupportedPair) =>
        /\ mpc = "returned"
        /\ result.kind = "ok"
        /\ schema.nodes = <<>> => (result.targetDDL = <<>> /\ result.mappingSummary = <<>>)

\* C7 as amended. For every ordered pair of distinct supported dialects,
\* migrateSchema returns DDL text exactly when the pair has a type-mapping table,
\* or the collaborator's response is well-shaped, or the source dialect has
\* tables and no entity has an attribute; otherwise it throws.  For a model with
\* no entities the DDL and the explanation list are empty whenever the
\* deterministic path produced the result.
ConversionTotalityWhereMapped ==
    (Finished /\ SupportedPair) =>
        /\ mpc = "returned" <=>
              \/ HasDirectMapping(NormalizedSource, NormalizedTarget)
              \/ WellShaped(aiReply)
              \/ NormalizedSource # SQL /\ NoAttributes
        /\ mpc = "returned" <=> result.kind = "ok"
        /\ (mpc = "returned" /\ schema.nodes = <<>> /\ mappingRuns > 0) =>
              (result.targetDDL = <<>> /\ result.mappingSummary = <<>>)

\* A document-dialect source, the collaborator threw, and the request still
\* returned: the empty DDL of a model with no entities.
ConversionTotalityWitness ==
    /\ mpc = "returned"
    /\ NormalizedSource = MONGO
    /\ NormalizedTarget \in RelationalDialects
    /\ aiReply.kind = "throws"
    /\ schema.nodes = <<>>
    /\ result.targetDDL = <<>>

\* The table definitions of a DDL text.
CreateTableLines(ddl) == {i \in DOMAIN ddl : ddl[i] # <<>> /\ ddl[i][1] = "CREATE TABLE"}

ExampleFallbackOutput ==
    (schema = ExampleModel /\ NormalizedSource = MONGO /\ NormalizedTarget = POSTGRES) =>
        /\ mpc = "returned"
        /\ Cardinality(CreateTableLines(result.targetDDL)) = 2
        /\ \E i \in DOMAIN result.targetDDL :
              /\ Len(result.targetDDL[i]) = 5
              /\ result.targetDDL[i][1] = "FOREIGN KEY"
              /\ result.targetDDL[i][2] = "user_id"

\* C8 as claimed. Fallback on collaborator failure: when the collaborator throws
\* or its response is not well-shaped, migrateSchema returns exactly the output
\* of migrateWithMapping for the same model and dialects, and no failure reaches
\* the caller; for the User/Order model from mongo to postgres the output has two
\* table definitions and a foreign key on user_id.
FallbackOnFailure ==
    (Finished /\ CollaboratorFailed) =>
        /\ mpc = "returned"
        /\ result = migrateWithMapping(schema, NormalizedSource, NormalizedTarget)
        /\ ExampleFallbackOutput

\* C8 as amended. When the collaborator throws or its response is not
\* well-shaped, migrateSchema returns exactly the output of migrateWithMapping
\* whenever migrateWithMapping completes (the pair has a type-mapping table, or
\* the source dialect has tables and no entity has an attribute), and the
\* collaborator's failure does not reach the caller; when migrateWithMapping
\* throws for want of a table, migrateSchema fails with that error.  For the
\* User/Order model from mongo to postgres the output has two table definitions
\* and a foreign key on user_id.
FallbackWhereMapped ==
    (Finished /\ CollaboratorFailed) =>
        LET completes == \/ HasDirectMapping(NormalizedSource, NormalizedTarget)
                         \/ HasSourceEntry(NormalizedSource) /\ NoAttributes
        IN  /\ completes =>
                  /\ mpc = "returned"
                  /\ result = migrateWithMapping(schema, NormalizedSource, NormalizedTarget)
                  /\ result.kind = "ok"
            /\ ~completes =>
                  /\ mpc = "thrown"
                  /\ result = Thrown("Failed to migrate schema: TypeError")
            /\ ExampleFallbackOutput

\* The User/Order model from mongo to postgres, the collaborator's answer was not
\* JSON, and the request returned.
FallbackWitness ==
    /\ schema = ExampleModel
    /\ NormalizedSource = MONGO
    /\ NormalizedTarget = POSTGRES
    /\ aiReply.kind = "text"
    /\ mpc = "returned"

\* One of the triggers of the AI-assisted path holds.
Triggered ==
    \/ ~HasDirectMapping(NormalizedSource, NormalizedTarget)
    \/ NormalizedSource = MONGO
    \/ NormalizedTarget = MONGO
    \/ Len(schema.edges) > 10
    \/ Len(schema.nodes) > 15

DeterministicOnly == aiCalls = 0 /\ mappingRuns = 1

\* C9 as claimed. Strategy decision: the collaborator is called iff a trigger
\* holds; otherwise, and in particular with exactly 10 relationships and 15
\* entities and for every pair of distinct relational dialects, the
\* deterministic path runs and the collaborator is never called.
StrategyDecision ==
    (mpc # "called" /\ NormalizedSource # NormalizedTarget) =>
        /\ aiCalls > 0 <=> Triggered
        /\ ~Triggered => DeterministicOnly
        /\ (/\ NormalizedSource \in RelationalDialects
            /\ NormalizedTarget \in RelationalDialects
            /\ Len(schema.edges) <= 10
            /\ Len(schema.nodes) <= 15) => DeterministicOnly

\* C9 as amended. The collaborator is called iff a trigger holds; otherwise, and
\* in particular with exactly 10 relationships and 15 entities and for the
\* pairs of distinct relational dialects that have a type-mapping table
\* (postgres and mysql, either way), the deterministic path runs and the
\* collaborator is never called.
StrategyDecisionWhereMapped ==
    (mpc # "called" /\ NormalizedSource # NormalizedTarget) =>
        /\ aiCalls > 0 <=> Triggered
        /\ ~Triggered => DeterministicOnly
        /\ (/\ NormalizedSource \in {POSTGRES, MYSQL}
            /\ NormalizedTarget \in {POSTGRES, MYSQL}
            /\ Len(schema.edges) <= 10
            /\ Len(schema.nodes) <= 15) => DeterministicOnly

\* Exactly 15 entities and 10 relationships between two relational dialects: the
\* request returned without a collaborator call.
StrategyDecisionWitness ==
    /\ Len(schema.nodes) = 15
    /\ Len(schema.edges) = 10
    /\ NormalizedSource = POSTGRES
    /\ NormalizedTarget = MYSQL
    /\ mpc = "returned"
    /\ DeterministicOnly

\* The names of one dialect: its canonical tag and its aliases.
DialectAliases ==
    { {MONGO, NameMongoDB}, {POSTGRES, NamePostgreSQL}, {MYSQL, NameMySQL},
      {SQL, NameSQLServer}, {NameOracle} }

SameDialect(a, b) == \E names \in DialectAliases : a \in names /\ b \in names

\* C10. Same-dialect rejection: when the source and target names denote the
\* same dialect, migrateSchema fails with an error, produces no DDL and never
\* calls the collaborator.
SameDialectRejection ==
    (mpc # "called" /\ SameDialect(sourceDbType, targetDbType)) =>
        /\ mpc = "thrown"
        /\ result.kind = "error"
        /\ result.targetDDL = <<>>
        /\ aiCalls = 0
        /\ mappingRuns = 0

\* "PostgreSQL" to "postgres" was rejected.
SameDialectRejectionWitness ==
    /\ sourceDbType = NamePostgreSQL
    /\ targetDbType = POSTGRES
    /\ mpc = "thrown"
    /\ result.message = "Failed to migrate schema: Source and target database types cannot be the same"

\* C11. Unsupported-dialect rejection: when the source or the target name does
\* not normalize to one of mongo, postgres, mysql, sql, migrateSchema reports
\* an error at once: it never calls the collaborator and never returns DDL.
UnsupportedDialectRejection ==
    (/\ mpc # "called"
     /\ \/ NormalizedSource \notin SupportedDialects
        \/ NormalizedTarget \notin SupportedDialects) =>
        /\ mpc = "thrown"
        /\ aiCalls = 0
        /\ result.kind = "error"

\* C18. One-shot collaborator call: a request calls the collaborator at most
\* once; once the collaborator has replied the request is over, and when the
\* reply was a failure or was badly shaped the only further work was one run
\* of the deterministic fallback.
OneShotCollaborator ==
    /\ aiCalls <= 1
    /\ mappingRuns <= 1
    /\ aiReply.kind # "none" => (Finished /\ aiCalls = 1)
    /\ CollaboratorFailed => mappingRuns = 1
    /\ (aiReply.kind # "none" /\ ~CollaboratorFailed) => mappingRuns = 0

\* The collaborator threw, the fallback ran once and the request returned its DDL.
OneShotCollaboratorWitness ==
    /\ aiReply.kind = "throws"
    /\ aiCalls = 1
    /\ mappingRuns = 1
    /\ mpc = "returned"
    /\ result.targetDDL # <<>>

(***************************************************************************)
(* Properties of ingestion.                                                *)
(***************************************************************************)
Synced == ipc \in {"reordered", "cleaned", "done"}
ReorderedDone == ipc \in {"cleaned", "done"}
CleanedDone == ipc = "done"

\* An entity as ingestion identifies it: its display name and its attributes.
NamedEntity(node) == [label |-> node.data.label, columns |-> node.data.columns]
NamedEntities(m) == {NamedEntity(m.nodes[i]) : i \in DOMAIN m.nodes}
DisplayNames(m) == {m.nodes[i].data.label : i \in DOMAIN m.nodes}

\* Every model the parsers find in the files, in file order and, inside a
\* file, in declaration order.
RECURSIVE Declarations(_)
Declarations(fs) ==
    IF fs = <<>> THEN <<>>
    ELSE (IF Recognized(Head(fs))
          THEN Parse(detectParserType(Head(fs).content), Head(fs).content).nodes
          ELSE <<>>)
         \o Declarations(Tail(fs))

\* The first declaration of a display name.
FirstDeclaration(decls, label) ==
    decls[CHOOSE i \in DOMAIN decls :
            /\ decls[i].data.label = label
            /\ \A j \in DOMAIN decls : decls[j].data.label = label => i <= j]

\* Every declaration of the display name carries the same attributes.
DeclaredAlike(decls, label) ==
    \A i, j \in DOMAIN decls :
        (decls[i].data.label = label /\ decls[j].data.label = label) =>
            decls[i].data.columns = decls[j].data.columns

\* C14 as claimed. Merge determinism: parseModels on any permutation of the
\* files returns the same entities, identified by display name and with the
\* same attributes, and the same relationships.
MergeDeterminism ==
    ReorderedDone =>
        /\ NamedEntities(reordered) = NamedEntities(synced.schema)
        /\ Range(reordered.edges) = Range(synced.schema.edges)

\* C14 as amended. parseModels on any permutation of the files returns the
\* same set of display names and the same relationships; an entity has the
\* attributes of the first declaration of its name in the order parsed, so
\* the entities whose declarations all carry the same attributes are the same
\* in every order.
MergeDeterminismOfNames ==
    ReorderedDone =>
        /\ DisplayNames(reordered) = DisplayNames(synced.schema)
        /\ Range(reordered.edges) = Range(synced.schema.edges)
        /\ \A e \in NamedEntities(synced.schema) :
              DeclaredAlike(Declarations(files), e.label) => e \in NamedEntities(reordered)
        /\ \A e \in NamedEntities(reordered) :
              DeclaredAlike(Declarations(files), e.label) => e \in NamedEntities(synced.schema)

\* Three files were parsed in another order, one display name declared with
\* different attributes in two of them.
MergeDeterminismWitness ==
    /\ ReorderedDone
    /\ Len(files) = 3
    /\ Len(synced.schema.nodes) >= 3
    /\ reordered.nodes # synced.schema.nodes
    /\ \E e \in NamedEntities(synced.schema) : ~DeclaredAlike(Declarations(files), e.label)
    /\ \E e \in NamedEntities(synced.schema) : DeclaredAlike(Declarations(files), e.label)

\* C15. Merge de-duplication: the model parseModels returns holds exactly one
\* entity per distinct display name among the entities parsed from the files,
\* the entity carries the attributes of the first declaration of the name (in
\* file order, then declaration order), and the entity ids are pairwise
\* distinct.
MergeDeduplication ==
    Synced =>
        LET m == synced.schema
            decls == Declarations(files)
        IN  /\ DisplayNames(m) = {decls[i].data.label : i \in DOMAIN decls}
            /\ \A i, j \in DOMAIN m.nodes :
                  m.nodes[i].data.label = m.nodes[j].data.label => i = j
            /\ \A i \in DOMAIN m.nodes :
                  m.nodes[i].data.columns = FirstDeclaration(decls, m.nodes[i].data.label).data.columns
            /\ \A i, j \in DOMAIN m.nodes : m.nodes[i].id = m.nodes[j].id => i = j

\* A display name declared in two files and twice in one of them: the model
\* holds it once, with the attributes of the first file.
MergeDeduplicationWitness ==
    /\ Synced
    /\ Len(files) >= 2
    /\ files[1] = PrismaSchemaFile
    /\ SequelizeFile \in Range(files)
    /\ \E i \in DOMAIN synced.schema.nodes :
          /\ synced.schema.nodes[i].data.label = "User"
          /\ Len(synced.schema.nodes[i].data.columns) = 3
    /\ Len(synced.schema.nodes) < Len(Declarations(files))

\* C16. Batch robustness: with files of no recognized dialect in the batch,
\* parseModels returns, and returns what it returns for the batch without
\* those files; nothing of a skipped file is in the result.
BatchRobustness ==
    /\ Synced =>
          LET kept == Declarations(SelectSeq(files, Recognized))
          IN  DisplayNames(synced.schema) \subseteq {kept[i].data.label : i \in DOMAIN kept}
    /\ CleanedDone => cleaned = synced.schema

\* An unrecognized file came first in a batch that also held recognized files.
BatchRobustnessWitness ==
    /\ CleanedDone
    /\ Len(files) = 3
    /\ ~Recognized(files[1])
    /\ Recognized(files[2])
    /\ Recognized(files[3])
    /\ Len(synced.schema.nodes) >= 2
    /\ cleaned = synced.schema

\* C17. The file count of a sync response is the number of files that
\* contributed to the model: the files skipped as unrecognized are not counted.
ContributingFileCount ==
    Synced => synced.filesProcessed = Cardinality({i \in DOMAIN files : Recognized(files[i])})

\* C26. Primary key never nullable: in every model returned by ingestion,
\* every attribute flagged primary key is flagged non-nullable.
PrimaryKeyNeverNullable ==
    Synced =>
        \A i \in DOMAIN synced.schema.nodes :
           \A k \in DOMAIN synced.schema.nodes[i].data.columns :
              LET col == synced.schema.nodes[i].data.columns[k]
              IN  col.isPK => ~col.isNullable

\* The closing brace that matches the brace opened at position open: the first
\* position at which every brace opened from there on is closed.
MatchingBrace(toks, open) ==
    LET closed == {j \in open..Len(toks) :
                      /\ Cardinality({k \in open..j : toks[k].k = "{"})
                            = Cardinality({k \in open..j : toks[k].k = "}"})}
    IN  IF closed = {} THEN Len(toks) + 1
        ELSE CHOOSE j \in closed : \A j2 \in closed : j <= j2

\* The fields declared between a brace and the brace that matches it.
DeclaredFields(toks, open) ==
    {toks[j].v : j \in {k \in open..MatchingBrace(toks, open) : k \in DOMAIN toks /\ toks[k].k = "key"}}

\* C28. Balanced-brace block extraction: for every declaration
\* new mongoose.Schema({ ... }) of a file the document-model parser reads, the
\* entity of the declaration has no attribute but the fields declared between
\* the declaration's opening brace and the closing brace that matches it
\* (fields of a following schema of the file are not attributed to it).
BalancedBlockExtraction ==
    Synced =>
        \A i \in DOMAIN files :
           detectParserType(files[i].content) = "mongoose" =>
              \A p \in DOMAIN files[i].content :
                 LET toks == files[i].content
                     label == IF toks[p].k = "schemaDecl" THEN StripSchema(toks[p].v) ELSE ""
                     declared == Declarations(files)
                 IN  (/\ toks[p].k = "schemaDecl"
                      /\ Cardinality({j \in DOMAIN declared : declared[j].data.label = label}) = 1) =>
                        \A n \in DOMAIN synced.schema.nodes :
                           synced.schema.nodes[n].data.label = label =>
                              {synced.schema.nodes[n].data.columns[k].name :
                                    k \in DOMAIN synced.schema.nodes[n].data.columns}
                                 \subseteq DeclaredFields(toks, p + 1)

(***************************************************************************)
(* Properties of the services under concurrent load.                       *)
(***************************************************************************)
Over(req) == req.pc \in {"returned", "thrown"}

\* Some relationship of the model starts or ends at no entity of the model.
HasDanglingRelationship(m) ==
    \E i \in DOMAIN m.edges : ~HasNode(m, m.edges[i].source) \/ ~HasNode(m, m.edges[i].target)

\* C12. Validator completeness: for every model with a relationship whose
\* source or target is not the id of an entity of the model, validateSchema
\* returns an invalid result with an error naming the relationship.
ValidatorCompleteness ==
    \A c \in DOMAIN requests :
        (/\ requests[c].kind = "validate"
         /\ requests[c].pc = "returned"
         /\ HasDanglingRelationship(requests[c].schema)) =>
            /\ ~requests[c].outcome.valid
            /\ requests[c].outcome.error # ""

\* C13. Validator gating: the conversion and the diff entry points validate
\* the models they are given before using them, so a request on a model that
\* fails validation never returns DDL or a change set.
ValidatorGating ==
    \A c \in DOMAIN requests :
        (requests[c].kind \in {"migrate", "diff"} /\ requests[c].pc = "returned") =>
            /\ validateSchema(requests[c].schema).valid
            /\ requests[c].kind = "diff" => validateSchema(requests[c].other).valid

\* What migrateSchema returns, or throws, when it runs alone and the
\* collaborator, if called, answers with the reply.
migrateSchema(sch, source, target, reply) ==
    LET normalizedSource == normalizeDbType(source)
        normalizedTarget == normalizeDbType(target)
    IN  IF normalizedSource = normalizedTarget
        THEN Leave(Thrown("Source and target database types cannot be the same"))
        ELSE IF useAI(sch, normalizedSource, normalizedTarget)
        THEN Leave(AfterReply(sch, normalizedSource, normalizedTarget, reply))
        ELSE Leave(migrateWithMapping(sch, normalizedSource, normalizedTarget))

\* The result of the request when it is the only one the services handle.
Alone(req) ==
    IF req.kind = "migrate" THEN migrateSchema(req.schema, req.sourceDbType, req.targetDbType, req.aiReply)
    ELSE IF req.kind = "diff" THEN computeDiff(req.schema, req.other)
    ELSE IF req.kind = "validate" THEN validateSchema(req.schema)
    ELSE parseModels(req.files)

\* C19. Request independence: however the requests interleave, also at the
\* suspended collaborator call, each one returns what it returns when run
\* alone, and no request writes the state the others read (the one shared
\* object, the type-mapping tables, stays as the module built it).
RequestIndependence ==
    /\ typeMappings = TypeMappingTables
    /\ \A c \in DOMAIN requests : Over(requests[c]) => requests[c].outcome = Alone(requests[c])

\* Two conversions of one model between one pair of dialects interleaved at
\* the collaborator call: both are over, one on the collaborator's DDL, one on
\* the fallback.
RequestIndependenceWitness ==
    /\ DOMAIN requests = Clients
    /\ \A c \in Clients :
          /\ requests[c].kind = "migrate"
          /\ requests[c].schema = ExampleModel
          /\ requests[c].sourceDbType = NameMongoDB
          /\ requests[c].pc = "returned"
    /\ requests["c1"].aiReply.kind = "throws"
    /\ requests["c2"].outcome.targetDDL = AiDDL
    /\ requests["c1"].outcome.targetDDL # AiDDL

\* What the caller handed over with the request.
Input(req) == <<req.kind, req.schema, req.other, req.sourceDbType, req.targetDbType, req.files>>

MappedResult ==
    /\ mpc = "returned"
    /\ mappingRuns = 1
    /\ HasDirectMapping(NormalizedSource, NormalizedTarget)

\* The line of the DDL text that opens the table definition of an entity.
TableStart(ddl, label) ==
    CHOOSE i \in DOMAIN ddl :
        /\ ddl[i] = <<"CREATE TABLE", TableName(label), "(">>
        /\ \A j \in 1..(i - 1) : ddl[j] # ddl[i]

\* The line that closes the table definition opened at line start.
TableEnd(ddl, start) ==
    CHOOSE i \in DOMAIN ddl :
        /\ i > start
        /\ ddl[i] = <<");">>
        /\ \A j \in (start + 1)..(i - 1) : ddl[j] # <<");">>

\* The lines of the table definition of an entity, between the opening and the
\* closing line.
TableLines(ddl, label) ==
    LET start == TableStart(ddl, label)
    IN  SubSeq(ddl, start + 1, TableEnd(ddl, start) - 1)

\* The column lines of an entity's table definition named as the attribute.
ColumnLines(ddl, label, name) ==
    SelectSeq(TableLines(ddl, label), LAMBDA line : line[1] = name)

\* The table has an entry for the type as the model spells it, or for its
\* upper-case spelling.
HasEntryFor(table, type) == type \in DOMAIN table \/ ToUpperCase(type) \in DOMAIN table

EntryFor(table, type) == IF type \in DOMAIN table THEN table[type] ELSE table[ToUpperCase(type)]

\* C21. Deterministic type lookup: in the output of migrateWithMapping for a
\* dialect pair that has a table (the mongo-source tables included), every
\* attribute that is not a primary key is rendered with the target type of the
\* table's entry for its type when the table has one, and as VARCHAR(255)
\* only when it has none; the conversion does not fail.
DeterministicTypeLookup ==
    (/\ Finished
     /\ mappingRuns = 1
     /\ HasDirectMapping(NormalizedSource, NormalizedTarget)) =>
        /\ mpc = "returned"
        /\ \A i \in DOMAIN schema.nodes :
              \A k \in DOMAIN schema.nodes[i].data.columns :
                 LET node == schema.nodes[i]
                     col == node.data.columns[k]
                     table == TypeMappingTables[<<NormalizedSource, NormalizedTarget>>]
                     lines == ColumnLines(result.targetDDL, node.data.label, col.name)
                 IN  ~col.isPK =>
                        /\ Len(lines) = 1
                        /\ lines[1][2] = IF HasEntryFor(table, col.type)
                                          THEN EntryFor(table, col.type)
                                          ELSE "VARCHAR(255)"

\* The identity idiom of each relational dialect.
IdentityIdiom ==
    (POSTGRES :> "SERIAL") @@ (MYSQL :> "INT AUTO_INCREMENT") @@ (SQL :> "INT IDENTITY(1,1)")

\* The uniqueness constraints on an attribute in an entity's table definition.
UniqueLines(ddl, label, name) ==
    SelectSeq(TableLines(ddl, label), LAMBDA line : line = <<"UNIQUE", name>>)

\* C22. Column flag rendering: in the output of migrateWithMapping a
\* primary-key attribute is rendered with the identity idiom of the target
\* dialect (SERIAL, INT AUTO_INCREMENT, INT IDENTITY(1,1)), whatever the
\* source dialect, and gets neither NOT NULL nor UNIQUE; an attribute that is
\* not a primary key gets NOT NULL iff it is not nullable and a UNIQUE
\* constraint iff it is unique.
ColumnFlagRendering ==
    MappedResult =>
        \A i \in DOMAIN schema.nodes :
           \A k \in DOMAIN schema.nodes[i].data.columns :
              LET node == schema.nodes[i]
                  col == node.data.columns[k]
                  lines == ColumnLines(result.targetDDL, node.data.label, col.name)
                  unique == UniqueLines(result.targetDDL, node.data.label, col.name)
              IN  /\ Len(lines) = 1
                  /\ col.isPK =>
                        /\ NormalizedTarget \in DOMAIN IdentityIdiom =>
                              lines[1][2] = IdentityIdiom[NormalizedTarget]
                        /\ Len(lines[1]) = 2
                        /\ unique = <<>>
                  /\ ~col.isPK =>
                        /\ lines[1] = IF col.isNullable
                                      THEN <<col.name, lines[1][2]>>
                                      ELSE <<col.name, lines[1][2], "NOT NULL">>
                        /\ Len(unique) = IF col.isUnique THEN 1 ELSE 0

\* A mysql model converted to postgres on the deterministic path alone: the
\* unique, non-nullable primary key is rendered as SERIAL without flags, the
\* nullable attribute without NOT NULL.
ColumnFlagRenderingWitness ==
    /\ MappedResult
    /\ aiCalls = 0
    /\ schema = KeyedModel
    /\ NormalizedSource = MYSQL
    /\ NormalizedTarget = POSTGRES
    /\ <<"code", "SERIAL">> \in Range(result.targetDDL)
    /\ <<"phone", "VARCHAR(255)">> \in Range(result.targetDDL)

\* The FOREIGN KEY constraints of an entity's table definition.
ForeignKeyLines(ddl, label) ==
    SelectSeq(TableLines(ddl, label), LAMBDA line : line[1] = "FOREIGN KEY")

\* The attribute of the entity that a handle of a relationship is attached to.
AttributeOfHandle(node, handle) ==
    LET names == {node.data.columns[k].name : k \in DOMAIN node.data.columns}
    IN  CHOOSE name \in names : handle \in {name \o "-left", name \o "-right"}

\* The entity of the model with the id.
EntityOf(m, id) == CHOOSE node \in Range(m.nodes) : node.id = id

\* The constraint a relationship stands for: its source attribute, the table
\* of its target entity and its target attribute.
ConstraintOf(m, edge) ==
    <<"FOREIGN KEY", AttributeOfHandle(EntityOf(m, edge.source), edge.sourceHandle),
      "REFERENCES", TableName(EntityOf(m, edge.target).data.label),
      AttributeOfHandle(EntityOf(m, edge.target), edge.targetHandle)>>

\* C23. Foreign-key emission: in the output of migrateWithMapping the table
\* definition of every entity E holds exactly one FOREIGN KEY constraint per
\* relationship whose source is E, in the order of the relationships, each
\* referencing the table of the relationship's target entity and its target
\* attribute, and no foreign key of a relationship whose source is another
\* entity.
ForeignKeyEmission ==
    (MappedResult /\ ValidModel(schema)) =>
        \A i \in DOMAIN schema.nodes :
           LET node == schema.nodes[i]
               own == SelectSeq(schema.edges, LAMBDA edge : edge.source = node.id)
           IN  ForeignKeyLines(result.targetDDL, node.data.label)
                  = [j \in DOMAIN own |-> ConstraintOf(schema, own[j])]

\* The User/Order model converted from mysql to postgres: the foreign key of
\* the relationship Order.user_id -> User.id is in the table of Order and not
\* in the table of User.
ForeignKeyEmissionWitness ==
    /\ MappedResult
    /\ schema = ExampleModel
    /\ NormalizedSource = MYSQL
    /\ NormalizedTarget = POSTGRES
    /\ ForeignKeyLines(result.targetDDL, "Order")
          = << <<"FOREIGN KEY", "user_id", "REFERENCES", "user", "id">> >>
    /\ ForeignKeyLines(result.targetDDL, "User") = <<>>

\* The attributes of a model, entity by entity: the order of the entries of
\* the mapping explanation.
RECURSIVE Attributes(_)
Attributes(nodes) ==
    IF nodes = <<>> THEN <<>> ELSE Head(nodes).data.columns \o Attributes(Tail(nodes))

\* C29. Unmapped-type explanation: in the output of migrateWithMapping, the
\* explanation entry of an attribute rendered with the generic type because
\* the table of the dialect pair has no entry for its type carries a reason
\* that differs from the reason of every attribute the table maps; the
\* conversion does not abort.
UnmappedTypeExplanation ==
    (/\ Finished
     /\ mappingRuns = 1
     /\ HasDirectMapping(NormalizedSource, NormalizedTarget)) =>
        /\ mpc = "returned"
        /\ Len(result.mappingSummary) = Len(Attributes(schema.nodes))
        /\ LET table == TypeMappingTables[<<NormalizedSource, NormalizedTarget>>]
               cols == Attributes(schema.nodes)
               Generic(i) == ~cols[i].isPK /\ ~HasEntryFor(table, cols[i].type)
               Mapped(i) == /\ ~cols[i].isPK
                            /\ HasEntryFor(table, cols[i].type)
                            /\ result.mappingSummary[i].targetType = EntryFor(table, cols[i].type)
           IN  \A i, j \in DOMAIN cols :
                  (Generic(i) /\ Mapped(j)) =>
                      /\ result.mappingSummary[i].targetType = "VARCHAR(255)"
                      /\ result.mappingSummary[i].reason # result.mappingSummary[j].reason

(***************************************************************************)
(* Properties of the version routes.                                       *)
(***************************************************************************)
\* The stored versions of a project.
Stored(projectId) == {version \in Range(versions) : version.projectId = projectId}

\* C24. Version numbering: whatever the interleaving of the create requests,
\* no two stored versions of a project have the same versionNumber, and the
\* numbers of the n stored versions of a project are exactly 1..n.
VersionNumbering ==
    \A projectId \in ProjectIds :
        /\ \A v, w \in Stored(projectId) : v.versionNumber = w.versionNumber => v = w
        /\ {version.versionNumber : version \in Stored(projectId)}
              = 1..Cardinality(Stored(projectId))

\* The user is the owner of the project.
Owns(userId, projectId) ==
    \E id \in DOMAIN projects : id = projectId /\ projects[id].userId = userId

\* The response carries version or schema data.
CarriesData(r) == r.status = 200 \/ r.versions # <<>> \/ r.schema # Null \/ r.diff # Null

\* What a response may carry and what the store may hold.
OwnersOnly ==
    /\ CarriesData(response) =>
          /\ response.status = 200
          /\ response.route \in {"list", "create", "get", "restore", "compare"}
          /\ Owns(response.user, response.projectId)
          /\ \A version \in Range(response.versions) : Owns(response.user, version.projectId)
    /\ response.diff # Null =>
          /\ response.route = "compare"
          /\ Len(response.versions) = 2
          /\ response.versions[1].projectId = response.versions[2].projectId
    /\ response.schema # Null =>
          /\ response.route = "restore"
          /\ \E version \in Range(versions) :
                /\ version.schemaJSON = response.schema
                /\ Owns(response.user, version.projectId)
    /\ \A version \in Range(versions) : Owns(version.createdBy, version.projectId)

\* The step that answers a restore request leaves the store as it is.
RestoreReadsOnly ==
    response'.route = "restore" => (projects' = projects /\ versions' = versions)

\* C30. Version access control: whatever the sequence of requests to the
\* version routes, a response carries version or schema data only when the
\* user of the request owns the project of the version(s), a version is
\* stored only for the owner of its project, a diff is returned only for two
\* versions of one project, and restore changes no stored project or version.
VersionAccessControl == []OwnersOnly /\ [][RestoreReadsOnly]_vars

\* The owner of a project compared its two versions and got their diff, and
\* the versions were created by that user.
VersionAccessControlWitness ==
    /\ response.route = "compare"
    /\ response.status = 200
    /\ response.user = "u2"
    /\ Len(response.versions) = 2
    /\ response.versions[1] # response.versions[2]
    /\ \A version \in Range(response.versions) :
          version.projectId = "p2" /\ version.createdBy = "u2"
    /\ response.diff.nodes.added # <<>>
=============================================================================
